---- MODULE Spec2Model ----
(***************************************************************************)
(* PathWire protocol engine: bounded queue (ring_buffer), frame parser     *)
(* (cmnd_parser), command dispatcher (cmnd_executer), frame encoder        *)
(* (cmnd_sender) and transmit notifier, modelled from the C++ sources.     *)
(*                                                                         *)
(* Bytes are their ASCII codes.  Pointers into the parser's work buffer    *)
(* are 0-based indices into it; nullptr is a value outside every buffer.   *)
(***************************************************************************)
EXTENDS Integers, Sequences, FiniteSets, TLC

VARIABLES
    rb,         \* ring_buffer<T> under test (queue specifications)
    rbOut,      \* the caller's `out` argument of ring_buffer::pop
    qhist,      \* history of completed queue operations
    qpre,       \* queue and `out` as they were before the last operation
    pPC,        \* producer position inside ring_buffer::push
    pNext,      \* producer local `next`
    pItem,      \* producer argument `item`
    pCount,     \* number of push calls started
    cPC,        \* consumer position inside ring_buffer::pop
    rx,         \* RX ring_buffer<uint8_t>
    fq,         \* ring_buffer<cmnd_frame>
    tx,         \* TX ring_buffer<uint8_t>
    ps,         \* cmnd_parser members
    rxd,        \* bytes the transport has received so far, in order
    plog,       \* one entry per byte the parser popped
    calls,      \* handler invocations made by the dispatcher
    path_table, \* the dispatcher's route table
    xlast,      \* what the dispatcher's most recent poll saw and did
    wire,       \* bytes written to the USART2 data register
    tx_notify,  \* the transmit notifier slot
    TXEIE,      \* USART2 CR1.TXEIE
    job,        \* the encoder call under study
    sent,       \* what the encoder call did
    nhist       \* registrations and notifications of the notifier, in order

qvars == <<rb, rbOut, qhist, qpre, pPC, pNext, pItem, pCount, cPC>>
pvars == <<rx, fq, ps, rxd, plog, calls, path_table, xlast>>
svars == <<tx, tx_notify, TXEIE, job, sent, wire, nhist>>
vars  == <<rb, rbOut, qhist, qpre, pPC, pNext, pItem, pCount, cPC,
           rx, fq, tx, ps, rxd, plog, calls, path_table, xlast,
           tx_notify, TXEIE, job, sent, wire, nhist>>

----------------------------------------------------------------------------
(* Bytes the code names.                                                   *)
NUL      == 0
LBRACE   == 123
RBRACE   == 125
COLON    == 58
COMMA    == 44
MINUS    == 45
DOT      == 46
CH_0     == 48
CH_9     == 57
CH_p     == 112
CH_d     == 100
nullptr  == -1

(* Bytes the input alphabets add: 'a' and '1'.                             *)
CH_a == CH_d - 3
CH_1 == CH_0 + 1

UINT16   == 65536
INT32_MIN == -2147483647 - 1
INT32_MAX == 2147483647

----------------------------------------------------------------------------
(* Sequence helpers.                                                       *)
RECURSIVE SeqsUpTo(_, _)
SeqsUpTo(S, n) ==
    IF n = 0 THEN {<< >>}
    ELSE LET shorter == SeqsUpTo(S, n - 1)
         IN  shorter \cup {Append(s, x) : s \in shorter, x \in S}

IsPrefix(s, t) == Len(s) <= Len(t) /\ \A i \in 1..Len(s) : s[i] = t[i]

----------------------------------------------------------------------------
(* ring_buffer<T>                                                          *)

ring_buffer(storage, bufferSize) ==
    [buffer |-> storage, buffer_size |-> bufferSize, prd |-> 0, cns |-> 0]

ZeroStorage(n) == [i \in 0..(n - 1) |-> 0]

(* Storage of a frame queue: value-initialised cmnd_frame objects.         *)
NoFrame == [path |-> nullptr, path_len |-> 0, data |-> nullptr, data_len |-> 0]
FrameStorage(n) == [i \in 0..(n - 1) |-> NoFrame]

push_nocheck(q, item) ==
    LET next == (q.prd + 1) % q.buffer_size
    IN  [ok |-> TRUE,
         q  |-> [q EXCEPT !.buffer[q.prd % q.buffer_size] = item, !.prd = next]]

push(q, item) ==
    LET next == (q.prd + 1) % q.buffer_size
    IN  IF next = q.cns
        THEN [ok |-> FALSE, q |-> q]
        ELSE [ok |-> TRUE,
              q  |-> [q EXCEPT !.buffer[q.prd % q.buffer_size] = item,
                               !.prd = next]]

pop_newest(q, out) ==
    IF q.cns = q.prd
    THEN [ok |-> FALSE, out |-> out, q |-> q]
    ELSE [ok  |-> TRUE,
          out |-> q.buffer[(q.prd + q.buffer_size - 1) % q.buffer_size],
          q   |-> [q EXCEPT !.cns = (q.cns + 1) % q.buffer_size]]

pop(q, out) ==
    IF q.cns = q.prd
    THEN [ok |-> FALSE, out |-> out, q |-> q]
    ELSE [ok  |-> TRUE,
          out |-> q.buffer[q.cns % q.buffer_size],
          q   |-> [q EXCEPT !.cns = (q.cns + 1) % q.buffer_size]]

(* Number of live elements and the live elements, oldest first.            *)
Live(q) == (q.prd + q.buffer_size - q.cns) % q.buffer_size
Contents(q) == [i \in 1..Live(q) |-> q.buffer[(q.cns + i - 1) % q.buffer_size]]
IsFull(q)  == (q.prd + 1) % q.buffer_size = q.cns
IsEmpty(q) == q.prd = q.cns

----------------------------------------------------------------------------
(* C strings: the bytes from `ptr` up to the first NUL of the buffer.      *)
RECURSIVE CStr(_, _)
CStr(buf, ptr) ==
    IF ptr \notin DOMAIN buf \/ buf[ptr] = NUL THEN << >>
    ELSE <<buf[ptr]>> \o CStr(buf, ptr + 1)

(* A slice: the `len` bytes of the buffer from `ptr`.                      *)
Slice(buf, ptr, len) == [k \in 1..len |-> buf[ptr + k - 1]]

----------------------------------------------------------------------------
(* cmnd_parser                                                             *)

cmnd_parser(work_buffer, work_buffer_size) ==
    [workBuffer    |-> work_buffer,
     work_buf_size |-> work_buffer_size,
     idx           |-> 0,
     path_ptr      |-> nullptr,
     path_len      |-> 0,
     data_ptr      |-> nullptr,
     data_len      |-> 0,
     state         |-> "WAIT_START"]

reset(p) ==
    [p EXCEPT !.state = "WAIT_START", !.idx = 0,
              !.path_ptr = nullptr, !.data_ptr = nullptr,
              !.path_len = 0, !.data_len = 0]

(* workBuffer[idx++] = c                                                   *)
put(p, c) ==
    [p EXCEPT !.workBuffer[p.idx] = c, !.idx = (p.idx + 1) % UINT16]

(* What one iteration of poll's loop yields: the parser, the frame queue   *)
(* and whether a frame was pushed.                                         *)
Same(p, fqq) == [p |-> p, fq |-> fqq, pushed |-> FALSE]

overflow_reprocess(p, fqq, ch) ==
    Same(IF ch = LBRACE THEN [reset(p) EXCEPT !.state = "WAIT_P"]
         ELSE [reset(p) EXCEPT !.state = "ERROR"], fqq)

overflow_noreset(p, fqq, ch) ==
    Same([p EXCEPT !.state = "ERROR"], fqq)

(* Overflow guard taken: reset(); state = ERROR; continue                  *)
overflow_guard(p, fqq, ch) ==
    Same([reset(p) EXCEPT !.state = "ERROR"], fqq)

on_WAIT_START(p, fqq, ch) ==
    Same(IF ch = LBRACE THEN [reset(p) EXCEPT !.state = "WAIT_P"] ELSE p, fqq)

on_WAIT_P(p, fqq, ch) ==
    Same([p EXCEPT !.state = IF ch = CH_p THEN "WAIT_P_COLON" ELSE "ERROR"], fqq)

on_WAIT_P_COLON(p, fqq, ch) ==
    Same(IF ch = COLON
         THEN [p EXCEPT !.state = "READ_PATH", !.path_ptr = p.idx]
         ELSE [p EXCEPT !.state = "ERROR"], fqq)

on_READ_PATH_len(p, fqq, ch) ==
    Same(IF ch = COLON
         THEN LET p1 == put(p, NUL)
              IN  [p1 EXCEPT !.path_len = p1.idx, !.state = "WAIT_D"]
         ELSE put(p, ch), fqq)

on_READ_PATH(p, fqq, ch) ==
    Same(IF ch = COLON
         THEN LET p1 == put(p, NUL)
              IN  [p1 EXCEPT !.path_len = (p1.idx + UINT16 - 1) % UINT16,
                             !.state = "WAIT_D"]
         ELSE put(p, ch), fqq)

on_WAIT_D_lenient(p, fqq, ch) ==
    Same([p EXCEPT !.state = "WAIT_D_COLON"], fqq)

on_WAIT_D(p, fqq, ch) ==
    Same([p EXCEPT !.state = IF ch = CH_d THEN "WAIT_D_COLON" ELSE "ERROR"], fqq)

on_WAIT_D_COLON(p, fqq, ch) ==
    Same(IF ch = COLON
         THEN [p EXCEPT !.data_ptr = p.idx, !.state = "READ_DATA"]
         ELSE [p EXCEPT !.state = "ERROR"], fqq)

on_READ_DATA_stay(p, fqq, ch) ==
    IF ch = RBRACE
    THEN LET p1 == put(p, NUL)
             p2 == [p1 EXCEPT !.data_len =
                       (p1.idx + 2 * UINT16 - p1.data_ptr - 1) % UINT16]
             frame == [path |-> p2.path_ptr, path_len |-> p2.path_len,
                       data |-> p2.data_ptr, data_len |-> p2.data_len]
             r == push(fqq, frame)
         IN  IF ~r.ok
             THEN Same(reset(p2), fqq)
             ELSE [p |-> reset(p2), fq |-> r.q, pushed |-> TRUE]
    ELSE Same(put(p, ch), fqq)

on_READ_DATA(p, fqq, ch) ==
    IF ch = RBRACE
    THEN LET p1 == put(p, NUL)
             p2 == [p1 EXCEPT !.data_len =
                       (p1.idx + 2 * UINT16 - p1.data_ptr - 1) % UINT16]
             frame == [path |-> p2.path_ptr, path_len |-> p2.path_len,
                       data |-> p2.data_ptr, data_len |-> p2.data_len]
             r == push(fqq, frame)
         IN  IF ~r.ok
             THEN Same([reset(p2) EXCEPT !.state = "ERROR"], fqq)
             ELSE [p |-> reset(p2), fq |-> r.q, pushed |-> TRUE]
    ELSE Same(put(p, ch), fqq)

on_ERROR(p, fqq, ch) ==
    LET p1 == [p EXCEPT !.idx = 0]
    IN  Same(IF ch = LBRACE THEN [reset(p1) EXCEPT !.state = "WAIT_P"] ELSE p1,
             fqq)

poll_byte_guard_gt(p, fqq, ch) ==
    IF p.idx > p.work_buf_size THEN overflow_guard(p, fqq, ch)
    ELSE CASE p.state = "WAIT_START"   -> on_WAIT_START(p, fqq, ch)
           [] p.state = "WAIT_P"       -> on_WAIT_P(p, fqq, ch)
           [] p.state = "WAIT_P_COLON" -> on_WAIT_P_COLON(p, fqq, ch)
           [] p.state = "READ_PATH"    -> on_READ_PATH(p, fqq, ch)
           [] p.state = "WAIT_D"       -> on_WAIT_D(p, fqq, ch)
           [] p.state = "WAIT_D_COLON" -> on_WAIT_D_COLON(p, fqq, ch)
           [] p.state = "READ_DATA"    -> on_READ_DATA(p, fqq, ch)
           [] p.state = "ERROR"        -> on_ERROR(p, fqq, ch)
           [] OTHER                    -> Same(reset(p), fqq)

(* The body of poll's while loop for one popped byte.                      *)
poll_byte(p, fqq, ch) ==
    IF p.idx >= p.work_buf_size THEN overflow_guard(p, fqq, ch)
    ELSE CASE p.state = "WAIT_START"   -> on_WAIT_START(p, fqq, ch)
           [] p.state = "WAIT_P"       -> on_WAIT_P(p, fqq, ch)
           [] p.state = "WAIT_P_COLON" -> on_WAIT_P_COLON(p, fqq, ch)
           [] p.state = "READ_PATH"    -> on_READ_PATH(p, fqq, ch)
           [] p.state = "WAIT_D"       -> on_WAIT_D(p, fqq, ch)
           [] p.state = "WAIT_D_COLON" -> on_WAIT_D_COLON(p, fqq, ch)
           [] p.state = "READ_DATA"    -> on_READ_DATA(p, fqq, ch)
           [] p.state = "ERROR"        -> on_ERROR(p, fqq, ch)
           [] OTHER                    -> Same(reset(p), fqq)

(* The record kept for one popped byte: the parser before and after,       *)
(* whether the frame queue was left as it was, and, when the byte          *)
(* completed a frame, whether the frame queue had room and the frame       *)
(* pushed (with the path and data it denotes in the work buffer then).     *)
LogEntry(p, fqq, ch, s) ==
    LET completes == p.idx < p.work_buf_size /\ p.state = "READ_DATA"
                     /\ ch = RBRACE
        slot == fqq.prd % fqq.buffer_size
    IN  [ch     |-> ch,
         pre    |-> p,
         post   |-> s.p,
         fqSame |-> s.fq = fqq,
         room   |-> completes => ~IsFull(fqq),
         pushed |-> s.pushed,
         frame  |-> IF s.pushed THEN s.fq.buffer[slot] ELSE NoFrame,
         path   |-> IF s.pushed
                    THEN CStr(s.p.workBuffer, s.fq.buffer[slot].path)
                    ELSE << >>,
         data   |-> IF s.pushed
                    THEN CStr(s.p.workBuffer, s.fq.buffer[slot].data)
                    ELSE << >>]

RECURSIVE poll_until_frame(_, _, _, _)
poll_until_frame(p, rxq, fqq, log) ==
    LET r == pop(rxq, 0)
    IN  IF ~r.ok
        THEN [p |-> p, rx |-> rxq, fq |-> fqq, log |-> log]
        ELSE LET s == poll_byte(p, fqq, r.out)
                 l == Append(log, LogEntry(p, fqq, r.out, s))
             IN  IF s.pushed THEN [p |-> s.p, rx |-> r.q, fq |-> s.fq, log |-> l]
                 ELSE poll_until_frame(s.p, r.q, s.fq, l)

RECURSIVE poll_loop(_, _, _, _)
poll_loop(p, rxq, fqq, log) ==
    LET r == pop(rxq, 0)
    IN  IF ~r.ok
        THEN [p |-> p, rx |-> rxq, fq |-> fqq, log |-> log]
        ELSE LET s == poll_byte(p, fqq, r.out)
             IN  poll_loop(s.p, r.q, s.fq,
                           Append(log, LogEntry(p, fqq, r.out, s)))

poll_fresh(p, rxq, fqq, log) == poll_loop(reset(p), rxq, fqq, log)

(* cmnd_parser::poll: while (rx_queue.pop(ch)) { ... }                     *)
RECURSIVE poll(_, _, _, _)
poll(p, rxq, fqq, log) ==
    LET r == pop(rxq, 0)
    IN  IF ~r.ok
        THEN [p |-> p, rx |-> rxq, fq |-> fqq, log |-> log]
        ELSE LET s == poll_byte(p, fqq, r.out)
             IN  poll(s.p, r.q, s.fq, Append(log, LogEntry(p, fqq, r.out, s)))

----------------------------------------------------------------------------
(* cmnd_executer                                                           *)

MAX_CSV_ITEMS == 8

IsDigit(c) == c >= CH_0 /\ c <= CH_9

detect_type_dot_first(data) ==
    LET F[i \in 0..Len(data)] ==
          IF i = 0 THEN "INT"
          ELSE LET c == data[i]
                   a == F[i - 1]
               IN  IF a # "INT" THEN a
                   ELSE IF c = DOT THEN "FLOAT"
                   ELSE IF ~IsDigit(c) /\ c # MINUS /\ c # COMMA THEN "STRING"
                   ELSE a
    IN  F[Len(data)]

(* detect_type: STRING at the first byte that is neither '.', a digit,     *)
(* '-' nor ','; otherwise FLOAT if a '.' was seen, else INT.               *)
detect_type(data) ==
    LET F[i \in 0..Len(data)] ==
          IF i = 0 THEN [has_dot |-> FALSE, str |-> FALSE]
          ELSE LET c == data[i]
                   a == F[i - 1]
               IN  IF a.str THEN a
                   ELSE IF c = DOT THEN [a EXCEPT !.has_dot = TRUE]
                   ELSE IF ~IsDigit(c) /\ c # MINUS /\ c # COMMA
                        THEN [a EXCEPT !.str = TRUE]
                        ELSE a
        r == F[Len(data)]
    IN  IF r.str THEN "STRING" ELSE IF r.has_dot THEN "FLOAT" ELSE "INT"

(* Index of the first byte at or after i that is ',' (or Len + 1).         *)
RECURSIVE FieldEnd(_, _)
FieldEnd(data, i) ==
    IF i > Len(data) \/ data[i] = COMMA THEN i ELSE FieldEnd(data, i + 1)

(* The run of digits of data that starts at i.                             *)
RECURSIVE Digits(_, _)
Digits(data, i) ==
    IF i > Len(data) \/ ~IsDigit(data[i]) THEN << >>
    ELSE <<data[i] - CH_0>> \o Digits(data, i + 1)

(* atoi on the text starting at i: an optional '-' and the digits that     *)
(* follow.  The magnitude is kept as digits so that a text outside the     *)
(* int range stays representable; AtoiValue gives the int when in range.   *)
atoi(data, i) ==
    LET neg == i <= Len(data) /\ data[i] = MINUS
    IN  [neg |-> neg, digits |-> Digits(data, IF neg THEN i + 1 ELSE i)]

RECURSIVE StripZeros(_)
StripZeros(d) == IF d # << >> /\ d[1] = 0 THEN StripZeros(Tail(d)) ELSE d

(* The negated magnitude of a digit string, with ovf set when the          *)
(* magnitude exceeds 2^31.  Accumulating downwards keeps 2^31 itself in    *)
(* range, as the text of INT32_MIN needs.                                  *)
NegMagnitude(d) ==
    LET z == StripZeros(d)
        n == IF Len(z) < 9 THEN Len(z) ELSE 9
        F[i \in 0..n] == IF i = 0 THEN 0 ELSE F[i - 1] * 10 - z[i]
    IN  IF Len(z) > 10 THEN [ovf |-> TRUE, val |-> 0]
        ELSE IF Len(z) < 10 THEN [ovf |-> FALSE, val |-> F[n]]
        ELSE IF F[9] < -214748364 \/ (F[9] = -214748364 /\ z[10] > 8)
             THEN [ovf |-> TRUE, val |-> 0]
             ELSE [ovf |-> FALSE, val |-> F[9] * 10 - z[10]]

(* The int values atoi can return for a parsed text.  A text outside the   *)
(* int range is undefined behaviour: the C library may saturate or wrap.   *)
AtoiOutcomes(a) ==
    LET m == NegMagnitude(a.digits)
    IN  IF m.ovf \/ (~a.neg /\ m.val = INT32_MIN)
        THEN {INT32_MIN, INT32_MAX, -1, 0}
        ELSE {IF a.neg THEN m.val ELSE -m.val}

(* parse_int_csv: the atoi texts of the first MAX_CSV_ITEMS fields.        *)
RECURSIVE parse_int_csv(_, _, _)
parse_int_csv(data, i, out) ==
    IF i > Len(data) \/ Len(out) >= MAX_CSV_ITEMS THEN out
    ELSE LET e == FieldEnd(data, i)
         IN  parse_int_csv(data, IF e <= Len(data) THEN e + 1 ELSE e,
                           Append(out, atoi(data, i)))

(* strtof on the text starting at i, for the bytes a FLOAT payload can     *)
(* hold: an optional '-', digits, an optional '.' and digits.  The value   *)
(* is kept as its decimal digits.                                          *)
strtof(data, i) ==
    LET neg  == i <= Len(data) /\ data[i] = MINUS
        b    == IF neg THEN i + 1 ELSE i
        ip   == Digits(data, b)
        d    == b + Len(ip)
        dot  == d <= Len(data) /\ data[d] = DOT
        fp   == IF dot THEN Digits(data, d + 1) ELSE << >>
    IN  IF ip = << >> /\ fp = << >>
        THEN [neg |-> FALSE, int |-> << >>, frac |-> << >>]
        ELSE [neg |-> neg, int |-> ip, frac |-> fp]

RECURSIVE parse_float_csv(_, _, _)
parse_float_csv(data, i, out) ==
    IF i > Len(data) \/ Len(out) >= MAX_CSV_ITEMS THEN out
    ELSE LET e == FieldEnd(data, i)
         IN  parse_float_csv(data, IF e <= Len(data) THEN e + 1 ELSE e,
                             Append(out, strtof(data, i)))

(* parse_string_csv on the work buffer, data starting at `base`: the       *)
(* item pointers and the buffer with the scanned commas overwritten.       *)
RECURSIVE parse_string_csv(_, _, _)
parse_string_csv(buf, d, out) ==
    IF d \notin DOMAIN buf \/ buf[d] = NUL \/ Len(out) >= MAX_CSV_ITEMS
    THEN [buf |-> buf, out |-> out]
    ELSE IF buf[d] = COMMA
         THEN parse_string_csv([buf EXCEPT ![d] = NUL], d + 1, Append(out, d + 1))
         ELSE parse_string_csv(buf, d + 1, out)

RECURSIVE LastMatch(_, _, _)
LastMatch(path, table, i) ==
    IF i > Len(table) THEN 0
    ELSE LET r == LastMatch(path, table, i + 1)
         IN  IF r # 0 THEN r ELSE IF table[i].path = path THEN i ELSE 0

(* Index of the first route entry whose path equals `path`, or 0.          *)
RECURSIVE FirstMatch(_, _, _)
FirstMatch(path, table, i) ==
    IF i > Len(table) THEN 0
    ELSE IF table[i].path = path THEN i
    ELSE FirstMatch(path, table, i + 1)

(* All sequences whose k-th element is drawn from the k-th set.            *)
RECURSIVE SeqProduct(_)
SeqProduct(sets) ==
    IF sets = << >> THEN {<< >>}
    ELSE {<<x>> \o t : x \in sets[1], t \in SeqProduct(Tail(sets))}

Call(i, table, type, values) ==
    [entry |-> i, handler |-> table[i].handler, type |-> type,
     count |-> Len(values), values |-> values]

dispatch_nocheck(frame, buf, table) ==
    LET i == FirstMatch(CStr(buf, frame.path), table, 1)
        data == CStr(buf, frame.data)
        type == detect_type(data)
    IN  IF i = 0 THEN [buf |-> buf, calls |-> {<< >>}]
        ELSE IF frame.data = nullptr \/ frame.data_len = 0
        THEN [buf |-> buf, calls |-> {<<Call(i, table, "NONE", << >>)>>}]
        ELSE IF type = "INT"
        THEN LET texts == parse_int_csv(data, 1, << >>)
                 outs  == [k \in 1..Len(texts) |-> AtoiOutcomes(texts[k])]
             IN  [buf |-> buf,
                  calls |-> {<<Call(i, table, "INT", v)>> : v \in SeqProduct(outs)}]
        ELSE IF type = "FLOAT"
        THEN [buf |-> buf,
              calls |-> {<<Call(i, table, "FLOAT",
                                parse_float_csv(data, 1, << >>))>>}]
        ELSE LET r == parse_string_csv(buf, frame.data, <<frame.data>>)
                 v == [k \in 1..Len(r.out) |-> CStr(r.buf, r.out[k])]
             IN  [buf |-> r.buf, calls |-> {<<Call(i, table, "STRING", v)>>}]

dispatch_classify_empty(frame, buf, table) ==
    LET i == FirstMatch(CStr(buf, frame.path), table, 1)
        data == CStr(buf, frame.data)
        type == detect_type(data)
    IN  IF i = 0 THEN [buf |-> buf, calls |-> {<< >>}]
        ELSE IF type # table[i].expected_type
        THEN [buf |-> buf, calls |-> {<< >>}]
        ELSE IF type = "INT"
        THEN LET texts == parse_int_csv(data, 1, << >>)
                 outs  == [k \in 1..Len(texts) |-> AtoiOutcomes(texts[k])]
             IN  [buf |-> buf,
                  calls |-> {<<Call(i, table, "INT", v)>> : v \in SeqProduct(outs)}]
        ELSE IF type = "FLOAT"
        THEN [buf |-> buf,
              calls |-> {<<Call(i, table, "FLOAT",
                                parse_float_csv(data, 1, << >>))>>}]
        ELSE LET r == parse_string_csv(buf, frame.data, <<frame.data>>)
                 v == [k \in 1..Len(r.out) |-> CStr(r.buf, r.out[k])]
             IN  [buf |-> r.buf, calls |-> {<<Call(i, table, "STRING", v)>>}]

(* What cmnd_executer::poll does with a popped frame: the work buffer      *)
(* afterwards and the possible handler invocations (none, or one).         *)
dispatch(frame, buf, table) ==
    LET i == FirstMatch(CStr(buf, frame.path), table, 1)
        data == CStr(buf, frame.data)
        type == detect_type(data)
    IN  IF i = 0 THEN [buf |-> buf, calls |-> {<< >>}]
        ELSE IF frame.data = nullptr \/ frame.data_len = 0
        THEN [buf |-> buf, calls |-> {<<Call(i, table, "NONE", << >>)>>}]
        ELSE IF type # table[i].expected_type
        THEN [buf |-> buf, calls |-> {<< >>}]
        ELSE IF type = "INT"
        THEN LET texts == parse_int_csv(data, 1, << >>)
                 outs  == [k \in 1..Len(texts) |-> AtoiOutcomes(texts[k])]
             IN  [buf |-> buf,
                  calls |-> {<<Call(i, table, "INT", v)>> : v \in SeqProduct(outs)}]
        ELSE IF type = "FLOAT"
        THEN [buf |-> buf,
              calls |-> {<<Call(i, table, "FLOAT",
                                parse_float_csv(data, 1, << >>))>>}]
        ELSE LET r == parse_string_csv(buf, frame.data, <<frame.data>>)
                 v == [k \in 1..Len(r.out) |-> CStr(r.buf, r.out[k])]
             IN  [buf |-> r.buf, calls |-> {<<Call(i, table, "STRING", v)>>}]

----------------------------------------------------------------------------
(* tx_notifier, the port's callback, and cmnd_sender.  An encoder call is  *)
(* followed through a record S: the TX queue, TXEIE, the notifier slot,    *)
(* whether every push so far succeeded (after a failed push the call has   *)
(* returned false and pushes nothing more) and the trace of what it did.   *)

(* usart2_tx_kick: USART2->CR1 |= USART_CR1_TXEIE                          *)
usart2_tx_kick(S) == [S EXCEPT !.TXEIE = TRUE]

(* tx_ready_handler, the callback pathwire_port_init registers.            *)
tx_ready_handler(S) == usart2_tx_kick(S)

(* notify_tx_ready: if (tx_notify) tx_notify()                             *)
notify_tx_ready(S) ==
    IF S.cb = "null" THEN S
    ELSE LET S1 == [S EXCEPT !.ev = Append(S.ev, [e |-> "notify", cb |-> S.cb,
                                                  c |-> 0, ok |-> TRUE])]
         IN  IF S.cb = "tx_ready_handler" THEN tx_ready_handler(S1) ELSE S1

push_char_notify_always(S, c) ==
    IF ~S.ok THEN S
    ELSE LET r == push(S.q, c)
             S1 == [S EXCEPT !.q = r.q, !.ok = r.ok,
                             !.ev = Append(S.ev, [e |-> "push", cb |-> "null",
                                                  c |-> c, ok |-> r.ok])]
         IN  notify_tx_ready(S1)

push_char_continue(S, c) ==
    LET r == push(S.q, c)
        S1 == [S EXCEPT !.q = r.q, !.ok = S.ok /\ r.ok,
                        !.ev = Append(S.ev, [e |-> "push", cb |-> "null",
                                             c |-> c, ok |-> r.ok])]
    IN  IF ~r.ok THEN S1 ELSE notify_tx_ready(S1)

push_char(S, c) ==
    IF ~S.ok THEN S
    ELSE LET r == push(S.q, c)
             S1 == [S EXCEPT !.q = r.q, !.ok = r.ok,
                             !.ev = Append(S.ev, [e |-> "push", cb |-> "null",
                                                  c |-> c, ok |-> r.ok])]
         IN  IF ~r.ok THEN S1 ELSE notify_tx_ready(S1)

RECURSIVE push_string(_, _)
push_string(S, str) ==
    IF str = << >> THEN S
    ELSE push_string(push_char(S, Head(str)), Tail(str))

Reverse(q) == [i \in 1..Len(q) |-> q[Len(q) + 1 - i]]

(* The digits of v > 0 as push_int stores them in buf: least significant   *)
(* first.                                                                  *)
RECURSIVE RevDigits(_)
RevDigits(v) ==
    IF v > 0 THEN <<CH_0 + (v % 10)>> \o RevDigits(v \div 10) ELSE << >>

INT32_MIN_TEXT == <<MINUS, 50, 49, 52, 55, 52, 56, 51, 54, 52, 56>>

push_int_lsd_first(S, v) ==
    IF v = INT32_MIN THEN push_string(S, INT32_MIN_TEXT)
    ELSE IF v = 0 THEN push_char(S, CH_0)
    ELSE LET negative == v < 0
             m   == IF negative THEN -v ELSE v
         IN  push_string(S, (IF negative THEN <<MINUS>> ELSE << >>)
                            \o RevDigits(m))

push_int_no_min(S, v) ==
    IF v = 0 THEN push_char(S, CH_0)
    ELSE LET negative == v < 0
             m   == IF v = INT32_MIN THEN v ELSE IF negative THEN -v ELSE v
             buf == RevDigits(m) \o (IF negative THEN <<MINUS>> ELSE << >>)
         IN  push_string(S, Reverse(buf))

(* The value v holds in push_int after `if (v < 0) v = -v`; INT32_MIN has  *)
(* returned before this point.                                             *)
Magnitude(v) == IF v < 0 THEN -v ELSE v

push_int(S, v) ==
    IF v = INT32_MIN THEN push_string(S, INT32_MIN_TEXT)
    ELSE IF v = 0 THEN push_char(S, CH_0)
    ELSE LET negative == v < 0
             m   == IF negative THEN -v ELSE v
             buf == RevDigits(m) \o (IF negative THEN <<MINUS>> ELSE << >>)
         IN  push_string(S, Reverse(buf))

(* A float is modelled by the integer n with value n / FloatUnit, which    *)
(* is exact for decimals of four places.                                   *)
FloatUnit == 10 * 1000

push_float(S, fv) ==
    LET S1 == IF fv < 0 THEN push_char(S, MINUS) ELSE S
        v  == IF fv < 0 THEN -fv ELSE fv
        int_part == v \div FloatUnit
        frac == v % FloatUnit
        S2 == push_char(push_int(S1, int_part), DOT)
        rounded == (frac * 1000 + FloatUnit \div 2) \div FloatUnit
        frac_part == IF rounded >= 1000 THEN 0 ELSE rounded
        S3 == IF frac_part < 100 THEN push_char(S2, CH_0) ELSE S2
        S4 == IF frac_part < 10 THEN push_char(S3, CH_0) ELSE S3
    IN  push_int(S4, frac_part)

begin_frame(S, path) ==
    LET S1 == push_char(push_char(push_char(S, LBRACE), CH_p), COLON)
        S2 == push_string(S1, path)
    IN  push_char(push_char(push_char(S2, COLON), CH_d), COLON)

end_frame(S) == push_char(S, RBRACE)

RECURSIVE send_values_comma_always(_, _, _, _)
send_values_comma_always(S, kind, values, i) ==
    IF i > Len(values) THEN S
    ELSE LET S1 == push_char(S, COMMA)
             S2 == IF kind = "int" THEN push_int(S1, values[i])
                   ELSE IF kind = "float" THEN push_float(S1, values[i])
                   ELSE push_string(S1, values[i])
         IN  send_values_comma_always(S2, kind, values, i + 1)

(* The loop of send_int / send_float / send_string over values[i..].       *)
RECURSIVE send_values(_, _, _, _)
send_values(S, kind, values, i) ==
    IF i > Len(values) THEN S
    ELSE LET S1 == IF i > 1 THEN push_char(S, COMMA) ELSE S
             S2 == IF kind = "int" THEN push_int(S1, values[i])
                   ELSE IF kind = "float" THEN push_float(S1, values[i])
                   ELSE push_string(S1, values[i])
         IN  send_values(S2, kind, values, i + 1)

send_trigger(S, path) == end_frame(begin_frame(S, path))
send_int(S, path, values) ==
    end_frame(send_values(begin_frame(S, path), "int", values, 1))
send_float(S, path, values) ==
    end_frame(send_values(begin_frame(S, path), "float", values, 1))
send_string(S, path, values) ==
    end_frame(send_values(begin_frame(S, path), "string", values, 1))

----------------------------------------------------------------------------
(* Bounds of the queue specifications.                                     *)
QMaxCap    == 4    \* largest buffer_size tried
QMaxOps    == 6    \* push/pop calls per behaviour
QNumValues == 2    \* items are 1..QNumValues
SpscMaxPush == 4   \* push calls of the concurrent producer

(* No dispatcher poll has happened yet.                                    *)
NoPoll ==
    [polled |-> FALSE, popped |-> FALSE, frame |-> NoFrame,
     path |-> << >>, data |-> << >>, cpath |-> << >>, cdata |-> << >>,
     livePre |-> 0, livePost |-> 0, same |-> TRUE, bufSame |-> TRUE,
     made |-> << >>]

(* Variables a specification does not use keep these values.               *)
QueueIdle ==
    /\ rb = ring_buffer(ZeroStorage(2), 2)
    /\ rbOut = 0
    /\ qhist = << >>
    /\ qpre = [rb |-> ring_buffer(ZeroStorage(2), 2), out |-> 0]
    /\ pPC = "idle" /\ pNext = 0 /\ pItem = 0 /\ pCount = 0
    /\ cPC = "idle"

ParserIdle ==
    /\ rx = ring_buffer(ZeroStorage(2), 2)
    /\ fq = ring_buffer(FrameStorage(2), 2)
    /\ ps = [state |-> "WAIT_START"]
    /\ rxd = << >>
    /\ plog = << >>
    /\ calls = << >>
    /\ path_table = << >>
    /\ xlast = NoPoll

SenderIdle ==
    /\ tx = ring_buffer(ZeroStorage(2), 2)
    /\ tx_notify = "null"
    /\ TXEIE = FALSE
    /\ job = [kind |-> "none", path |-> << >>, values |-> << >>, strs |-> << >>]
    /\ sent = [done |-> FALSE, ok |-> FALSE, ev |-> << >>, bytes |-> << >>,
               txPre |-> ring_buffer(ZeroStorage(2), 2)]
    /\ wire = << >>
    /\ nhist = << >>

----------------------------------------------------------------------------
(* Sequential use of one queue: any sequence of push and pop calls.        *)

QInit ==
    /\ \E C \in 2..QMaxCap : rb = ring_buffer(ZeroStorage(C), C)
    /\ rbOut = 0
    /\ qhist = << >>
    /\ qpre = [rb |-> rb, out |-> 0]
    /\ pPC = "idle" /\ pNext = 0 /\ pItem = 0 /\ pCount = 0
    /\ cPC = "idle"
    /\ ParserIdle
    /\ SenderIdle

QPush ==
    /\ Len(qhist) < QMaxOps
    /\ \E item \in 1..QNumValues :
         LET r == push(rb, item)
         IN  /\ rb' = r.q
             /\ qhist' = Append(qhist, [op |-> "push", item |-> item,
                                        ok |-> r.ok, out |-> rbOut])
    /\ qpre' = [rb |-> rb, out |-> rbOut]
    /\ UNCHANGED <<rbOut, pPC, pNext, pItem, pCount, cPC>>
    /\ UNCHANGED <<pvars, svars>>

QPop ==
    /\ Len(qhist) < QMaxOps
    /\ LET r == pop(rb, rbOut)
       IN  /\ rb' = r.q
           /\ rbOut' = r.out
           /\ qhist' = Append(qhist, [op |-> "pop", item |-> 0,
                                      ok |-> r.ok, out |-> r.out])
    /\ qpre' = [rb |-> rb, out |-> rbOut]
    /\ UNCHANGED <<pPC, pNext, pItem, pCount, cPC>>
    /\ UNCHANGED <<pvars, svars>>

QNext == QPush \/ QPop
SpecQueue == QInit /\ [][QNext]_vars

(* Items accepted by successful pushes / returned by successful pops.      *)
AcceptedPushes(h) ==
    LET F[i \in 0..Len(h)] ==
          IF i = 0 THEN << >>
          ELSE IF h[i].op = "push" /\ h[i].ok THEN Append(F[i - 1], h[i].item)
               ELSE F[i - 1]
    IN  F[Len(h)]

ReturnedPops(h) ==
    LET F[i \in 0..Len(h)] ==
          IF i = 0 THEN << >>
          ELSE IF h[i].op = "pop" /\ h[i].ok THEN Append(F[i - 1], h[i].out)
               ELSE F[i - 1]
    IN  F[Len(h)]

LastOp == qhist[Len(qhist)]

(* C6: push returns false iff the queue is full, and then changes nothing; *)
(* otherwise it stores the item at the producer slot, advances the         *)
(* producer index by one modulo the capacity and returns true.             *)
C6_PushContract ==
    (qhist # << >> /\ LastOp.op = "push") =>
        LET q0 == qpre.rb
            C  == q0.buffer_size
        IN  /\ (LastOp.ok = FALSE) <=> ((q0.prd + 1) % C = q0.cns)
            /\ ~LastOp.ok => (rb = q0 /\ rbOut = qpre.out)
            /\ LastOp.ok =>
                 /\ rb.buffer = [q0.buffer EXCEPT ![q0.prd] = LastOp.item]
                 /\ rb.prd = (q0.prd + 1) % C
                 /\ rb.cns = q0.cns
                 /\ rb.buffer_size = C

(* A push refused on a full queue, after pushes that were accepted.        *)
C6_Witness ==
    /\ qhist # << >>
    /\ LastOp.op = "push" /\ ~LastOp.ok
    /\ Len(AcceptedPushes(qhist)) = rb.buffer_size - 1
    /\ rb.buffer_size > 2

(* C7: pop returns false iff the queue is empty, leaving both indices and  *)
(* the output unchanged; otherwise it returns the element at the consumer  *)
(* slot, advances the consumer index by one modulo the capacity and        *)
(* returns true.                                                           *)
C7_PopContract ==
    (qhist # << >> /\ LastOp.op = "pop") =>
        LET q0 == qpre.rb
            C  == q0.buffer_size
        IN  /\ (LastOp.ok = FALSE) <=> (q0.prd = q0.cns)
            /\ ~LastOp.ok => (rb = q0 /\ rbOut = qpre.out)
            /\ LastOp.ok =>
                 /\ rbOut = q0.buffer[q0.cns]
                 /\ LastOp.out = rbOut
                 /\ rb.cns = (q0.cns + 1) % C
                 /\ rb.prd = q0.prd
                 /\ rb.buffer = q0.buffer
                 /\ rb.buffer_size = C

(* A pop refused on a queue emptied by earlier pops, `out` still holding   *)
(* the value of the last successful pop.                                   *)
C7_Witness ==
    /\ qhist # << >>
    /\ LastOp.op = "pop" /\ ~LastOp.ok
    /\ Len(ReturnedPops(qhist)) >= 2
    /\ rbOut # 0

(* The operations i..j of the history are all accepted pushes.             *)
AllAccepted(i, j) ==
    \A k \in i..j : qhist[k].op = "push" /\ qhist[k].ok

(* C8: both indices stay in [0, C) and at most C-1 elements are live;      *)
(* after exactly C-1 successful pushes with no pops the next push fails,   *)
(* and after one pop the next push succeeds.                               *)
C8_CapacityInvariant ==
    LET C == rb.buffer_size
    IN  /\ rb.prd \in 0..(C - 1)
        /\ rb.cns \in 0..(C - 1)
        /\ Live(rb) <= C - 1
        /\ Live(rb) = Len(AcceptedPushes(qhist)) - Len(ReturnedPops(qhist))
        /\ \A i \in 1..Len(qhist) :
             (i + C - 1 <= Len(qhist) /\ AllAccepted(i, i + C - 2)
              /\ (i = 1 \/ ~(qhist[i - 1].op = "push" /\ qhist[i - 1].ok))
              /\ Len(AcceptedPushes(SubSeq(qhist, 1, i - 1)))
                   = Len(ReturnedPops(SubSeq(qhist, 1, i - 1))))
             => LET n == i + C - 1
                IN  /\ qhist[n].op = "push" => ~qhist[n].ok
                    /\ (qhist[n].op = "pop" /\ n + 1 <= Len(qhist)
                        /\ qhist[n + 1].op = "push")
                       => (qhist[n].ok /\ qhist[n + 1].ok)

(* C-1 accepted pushes, a refused push, one pop, then an accepted push.    *)
C8_Witness ==
    LET C == rb.buffer_size
    IN  /\ C = QMaxCap
        /\ Len(qhist) = C + 2
        /\ AllAccepted(1, C - 1)
        /\ qhist[C].op = "push" /\ ~qhist[C].ok
        /\ qhist[C + 1].op = "pop" /\ qhist[C + 1].ok
        /\ qhist[C + 2].op = "push" /\ qhist[C + 2].ok

(* C9: the values returned by successful pops are a prefix of the values   *)
(* accepted by successful pushes.                                          *)
C9_Fifo == IsPrefix(ReturnedPops(qhist), AcceptedPushes(qhist))

(* Two different values popped in push order after the producer index      *)
(* has wrapped around.                                                     *)
C9_Witness ==
    /\ Len(AcceptedPushes(qhist)) >= rb.buffer_size
    /\ Len(ReturnedPops(qhist)) >= 2
    /\ ReturnedPops(qhist)[1] # ReturnedPops(qhist)[2]
    /\ rb.prd < rb.cns

----------------------------------------------------------------------------
(* One producer inside push and one consumer inside pop, interleaved at    *)
(* the level of single reads and writes of prd, cns and the slots.  The    *)
(* producer pushes 1, 2, 3, ... so that every item is distinguishable.     *)

SpscInit ==
    /\ \E C \in 2..QMaxCap : rb = ring_buffer(ZeroStorage(C), C)
    /\ rbOut = 0
    /\ qhist = << >>
    /\ qpre = [rb |-> rb, out |-> 0]
    /\ pPC = "idle" /\ pNext = 0 /\ pItem = 0 /\ pCount = 0
    /\ cPC = "idle"
    /\ ParserIdle
    /\ SenderIdle

(* push, line 57: next = (prd + 1) % buffer_size                           *)
PBegin ==
    /\ pPC = "idle"
    /\ pCount < SpscMaxPush
    /\ pCount' = pCount + 1
    /\ pItem' = pCount + 1
    /\ pNext' = (rb.prd + 1) % rb.buffer_size
    /\ pPC' = "check"
    /\ UNCHANGED <<rb, rbOut, qhist, qpre, cPC>>
    /\ UNCHANGED <<pvars, svars>>

PCheck_nofull ==
    /\ pPC = "check"
    /\ pPC' = "store"
    /\ UNCHANGED <<rb, rbOut, qhist, qpre, pNext, pItem, pCount, cPC>>
    /\ UNCHANGED <<pvars, svars>>

(* push, lines 58-61: if (next == cns) return false                        *)
PCheck ==
    /\ pPC = "check"
    /\ pPC' = IF pNext = rb.cns THEN "idle" ELSE "store"
    /\ UNCHANGED <<rb, rbOut, qhist, qpre, pNext, pItem, pCount, cPC>>
    /\ UNCHANGED <<pvars, svars>>

(* push, line 63: buffer[prd % buffer_size] = item                         *)
PStore ==
    /\ pPC = "store"
    /\ rb' = [rb EXCEPT !.buffer[rb.prd % rb.buffer_size] = pItem]
    /\ pPC' = "publish"
    /\ UNCHANGED <<rbOut, qhist, qpre, pNext, pItem, pCount, cPC>>
    /\ UNCHANGED <<pvars, svars>>

(* push, lines 64-65: prd = next; return true                              *)
PPublish ==
    /\ pPC = "publish"
    /\ rb' = [rb EXCEPT !.prd = pNext]
    /\ qhist' = Append(qhist, [op |-> "push", item |-> pItem,
                               ok |-> TRUE, out |-> rbOut])
    /\ pPC' = "idle"
    /\ UNCHANGED <<rbOut, qpre, pNext, pItem, pCount, cPC>>
    /\ UNCHANGED <<pvars, svars>>

(* pop, lines 76-79: if (cns == prd) return false                          *)
CBegin ==
    /\ cPC = "idle"
    /\ rb.cns # rb.prd
    /\ cPC' = "load"
    /\ UNCHANGED <<rb, rbOut, qhist, qpre, pPC, pNext, pItem, pCount>>
    /\ UNCHANGED <<pvars, svars>>

(* pop, line 81: out = buffer[cns % buffer_size]                           *)
CLoad ==
    /\ cPC = "load"
    /\ rbOut' = rb.buffer[rb.cns % rb.buffer_size]
    /\ cPC' = "advance"
    /\ UNCHANGED <<rb, qhist, qpre, pPC, pNext, pItem, pCount>>
    /\ UNCHANGED <<pvars, svars>>

(* pop, lines 82-83: cns = (cns + 1) % buffer_size; return true            *)
CAdvance ==
    /\ cPC = "advance"
    /\ rb' = [rb EXCEPT !.cns = (rb.cns + 1) % rb.buffer_size]
    /\ qhist' = Append(qhist, [op |-> "pop", item |-> 0,
                               ok |-> TRUE, out |-> rbOut])
    /\ cPC' = "idle"
    /\ UNCHANGED <<rbOut, qpre, pPC, pNext, pItem, pCount>>
    /\ UNCHANGED <<pvars, svars>>

SpscNext ==
    \/ PBegin \/ PCheck \/ PStore \/ PPublish
    \/ CBegin \/ CLoad \/ CAdvance
SpecSPSC == SpscInit /\ [][SpscNext]_vars

(* C5: with one producer and one consumer interleaved read by read and     *)
(* write by write, the popped values are exactly the first pushed values,  *)
(* in push order: none invented, none lost, none returned twice.           *)
C5_SpscSafe ==
    /\ IsPrefix(ReturnedPops(qhist), AcceptedPushes(qhist))
    /\ AcceptedPushes(qhist) = ReturnedPops(qhist) \o Contents(rb)
    /\ \A i \in 1..Len(AcceptedPushes(qhist)) :
         \A j \in 1..Len(AcceptedPushes(qhist)) :
            (i < j) => AcceptedPushes(qhist)[i] < AcceptedPushes(qhist)[j]

(* The consumer is in the middle of a pop while the producer is in the     *)
(* middle of a push that wraps the producer index, after a refused push.   *)
C5_Witness ==
    /\ pPC = "publish" /\ cPC = "advance"
    /\ Len(ReturnedPops(qhist)) >= 1
    /\ Len(AcceptedPushes(qhist)) < pCount - 1
    /\ pNext < rb.prd

----------------------------------------------------------------------------
(* The receive path: the transport interrupt pushes the script's bytes     *)
(* into the RX queue, the main loop calls the parser's and the             *)
(* dispatcher's poll.                                                      *)

ScratchCap == 4    \* work_buffer_size of the parser specification
FqCap      == 2    \* buffer_size of the frame queue

Str(n, c) == [i \in 1..n |-> c]

(* The bytes of the frame {p:P:d:D}.                                       *)
Frame(P, D) ==
    <<LBRACE, CH_p, COLON>> \o P \o <<COLON, CH_d, COLON>> \o D \o <<RBRACE>>

Prefixes(s) == {SubSeq(s, 1, n) : n \in 0..Len(s)}

(* Well-formed frames that fit the work buffer.                            *)
PathSamples == {Str(n, CH_a) : n \in 0..(ScratchCap - 2)} \cup {<<RBRACE>>}
DataSamples == {Str(n, CH_1) : n \in 0..(ScratchCap - 2)} \cup {<<COLON>>}
GoodFrames == {Frame(P, D) : P \in PathSamples, D \in DataSamples}

FittingFrames == {f \in GoodFrames : Len(f) <= 7 + ScratchCap - 2}

(* What precedes the frame: a frame, possibly too long for the work        *)
(* buffer, cut anywhere, then at most one more byte.                       *)
LongFrames ==
    {Frame(<< >>, << >>), Frame(<<CH_a>>, <<CH_1>>),
     Frame(Str(ScratchCap + 1, CH_a), << >>),
     Frame(Str(ScratchCap - 1, CH_a), <<CH_1>>),
     Frame(<<CH_a>>, Str(ScratchCap - 1, CH_1)),
     <<LBRACE, CH_p, CH_a, CH_d>>}

TailBytes == {LBRACE, RBRACE, CH_a}

Preambles ==
    {h \o t : h \in UNION {Prefixes(f) : f \in LongFrames},
              t \in {<< >>} \cup {<<c>> : c \in TailBytes}}

(* The byte streams the transport may receive, and their prefixes.         *)
Scripts ==
    {h \o f : h \in Preambles, f \in FittingFrames}
    \cup {Frame(<< >>, << >>) \o Frame(<<CH_a>>, <<CH_1>>) \o f :
             f \in FittingFrames}
ScriptPrefixes == UNION {Prefixes(s) : s \in Scripts}
ScriptBytes == {LBRACE, RBRACE, COLON, CH_p, CH_d, CH_a, CH_1}

(* The RX queue holds the longest script.                                  *)
RxCap == 2 * ScratchCap + 18

RouteTable ==
    <<[path |-> <<CH_a>>, expected_type |-> "INT",    handler |-> 1],
      [path |-> << >>,    expected_type |-> "NONE",   handler |-> 2],
      [path |-> <<CH_a, CH_a>>, expected_type |-> "STRING", handler |-> 3]>>

ParserInit ==
    /\ rx = ring_buffer(ZeroStorage(RxCap), RxCap)
    /\ fq = ring_buffer(FrameStorage(FqCap), FqCap)
    /\ ps = cmnd_parser(ZeroStorage(ScratchCap), ScratchCap)
    /\ rxd = << >>
    /\ plog = << >>
    /\ calls = << >>
    /\ path_table = RouteTable
    /\ xlast = NoPoll
    /\ QueueIdle
    /\ SenderIdle

USART2_IRQHandler_disable_after_pop(rxne, data, txe) ==
    /\ rx' = IF rxne THEN push(rx, data).q ELSE rx
    /\ LET r == pop(tx, 0)
       IN  /\ IF txe /\ r.ok
              THEN tx' = r.q /\ wire' = Append(wire, r.out)
              ELSE UNCHANGED <<tx, wire>>
           /\ TXEIE' = IF txe THEN FALSE ELSE TXEIE

(* USART2_IRQHandler: with RXNE set the received byte is pushed into the   *)
(* RX queue (the result of push is ignored); with TXE set a byte of the    *)
(* TX queue goes to the data register, or TXEIE is cleared.                *)
USART2_IRQHandler(rxne, data, txe) ==
    /\ rx' = IF rxne THEN push(rx, data).q ELSE rx
    /\ LET r == pop(tx, 0)
       IN  IF txe /\ r.ok
           THEN tx' = r.q /\ wire' = Append(wire, r.out) /\ UNCHANGED TXEIE
           ELSE /\ UNCHANGED <<tx, wire>>
                /\ TXEIE' = IF txe THEN FALSE ELSE TXEIE

(* The next byte of some script arrives.                                   *)
RxIrq ==
    /\ \E b \in ScriptBytes :
         /\ Append(rxd, b) \in ScriptPrefixes
         /\ rxd' = Append(rxd, b)
         /\ \E txe \in BOOLEAN : USART2_IRQHandler(TRUE, b, txe)
    /\ UNCHANGED <<fq, ps, plog, calls, path_table, xlast>>
    /\ UNCHANGED <<tx_notify, job, sent, nhist>>
    /\ UNCHANGED qvars

(* cmnd_parser::poll                                                       *)
ParserPoll ==
    /\ ~IsEmpty(rx)
    /\ LET r == poll(ps, rx, fq, plog)
       IN  ps' = r.p /\ rx' = r.rx /\ fq' = r.fq /\ plog' = r.log
    /\ UNCHANGED <<rxd, calls, path_table, xlast>>
    /\ UNCHANGED <<qvars, svars>>

(* The record of one dispatcher poll: the frame popped, the path and data  *)
(* it denoted in the work buffer then (as slices and as C strings), the    *)
(* number of queued frames before and after, whether the frame queue, the  *)
(* work buffer and the handlers were left untouched, and the handler       *)
(* invocations made.                                                       *)
PollRecord(popped, frame, buf, fqPre, fqPost, bufPost, made) ==
    [polled   |-> TRUE,
     popped   |-> popped,
     frame    |-> frame,
     path     |-> IF popped THEN Slice(buf, frame.path, frame.path_len) ELSE << >>,
     data     |-> IF popped THEN Slice(buf, frame.data, frame.data_len) ELSE << >>,
     cpath    |-> IF popped THEN CStr(buf, frame.path) ELSE << >>,
     cdata    |-> IF popped THEN CStr(buf, frame.data) ELSE << >>,
     livePre  |-> Live(fqPre),
     livePost |-> Live(fqPost),
     same     |-> fqPost = fqPre /\ bufPost = buf /\ made = << >>,
     bufSame  |-> bufPost = buf,
     made     |-> made]

ExecPoll_nocheck ==
    /\ LET out == fq.buffer[fq.cns % fq.buffer_size]
           q == [fq EXCEPT !.cns = (fq.cns + 1) % fq.buffer_size]
           d == dispatch(out, ps.workBuffer, path_table)
       IN  /\ fq' = q
           /\ ps' = [ps EXCEPT !.workBuffer = d.buf]
           /\ \E c \in d.calls :
                /\ calls' = calls \o c
                /\ xlast' = PollRecord(TRUE, out, ps.workBuffer, fq, q, d.buf, c)
    /\ UNCHANGED <<rx, rxd, plog, path_table>>
    /\ UNCHANGED <<qvars, svars>>

(* cmnd_executer::poll                                                     *)
ExecPoll ==
    /\ LET r == pop(fq, NoFrame)
       IN  IF ~r.ok
           THEN /\ UNCHANGED <<fq, ps, calls>>
                /\ xlast' = PollRecord(FALSE, NoFrame, ps.workBuffer, fq, fq,
                                       ps.workBuffer, << >>)
           ELSE /\ fq' = r.q
                /\ LET d == dispatch(r.out, ps.workBuffer, path_table)
                   IN  /\ ps' = [ps EXCEPT !.workBuffer = d.buf]
                       /\ \E c \in d.calls :
                            /\ calls' = calls \o c
                            /\ xlast' = PollRecord(TRUE, r.out, ps.workBuffer,
                                                   fq, r.q, d.buf, c)
    /\ UNCHANGED <<rx, rxd, plog, path_table>>
    /\ UNCHANGED <<qvars, svars>>

ParserNext == RxIrq \/ ParserPoll \/ ExecPoll
SpecParser == ParserInit /\ [][ParserNext]_vars

----------------------------------------------------------------------------
(* Claims about the parser, read off the log of popped bytes.              *)

(* The bytes popped at steps i..j of the log.                              *)
Popped(i, j) == [k \in 1..(j - i + 1) |-> plog[i + k - 1].ch]

RECURSIVE IndexOf(_, _, _)
IndexOf(b, c, i) ==
    IF i > Len(b) THEN 0 ELSE IF b[i] = c THEN i ELSE IndexOf(b, c, i + 1)

(* The path and data of b when b is {p:P:d:D} with P free of ':' and D     *)
(* free of '}'.                                                            *)
FramePath(b) == SubSeq(b, 4, IndexOf(b, COLON, 4) - 1)
FrameData(b) == SubSeq(b, IndexOf(b, COLON, 4) + 3, Len(b) - 1)
WellFormed(b) ==
    /\ Len(b) >= 7
    /\ IndexOf(b, COLON, 4) # 0
    /\ IndexOf(b, COLON, 4) + 3 <= Len(b)
    /\ b = Frame(FramePath(b), FrameData(b))
    /\ \A k \in 1..Len(FrameData(b)) : FrameData(b)[k] # RBRACE

Fits(b, cap) == Len(FramePath(b)) + Len(FrameData(b)) + 2 <= cap

(* The byte popped at step j completed the frame b and queued it.          *)
QueuedAs(j, b) ==
    /\ plog[j].pushed
    /\ plog[j].path = FramePath(b)
    /\ plog[j].frame.path_len = Len(FramePath(b))
    /\ plog[j].data = FrameData(b)
    /\ plog[j].frame.data_len = Len(FrameData(b))
    /\ plog[j].post.state = "WAIT_START"

(* C1: from WaitStart or Error, with room in the frame queue, the bytes    *)
(* of a well-formed frame that fits the work buffer queue exactly one      *)
(* Frame View with that path and data and leave the parser in WaitStart.   *)
C1_FrameParsed ==
    \A i \in 1..Len(plog) :
      (plog[i].ch = LBRACE /\ plog[i].pre.state \in {"WAIT_START", "ERROR"})
      => \A j \in i..Len(plog) :
           (/\ plog[j].ch = RBRACE
            /\ WellFormed(Popped(i, j))
            /\ Fits(Popped(i, j), plog[i].pre.work_buf_size)
            /\ plog[j].room)
           => /\ QueuedAs(j, Popped(i, j))
              /\ \A k \in i..(j - 1) : ~plog[k].pushed

(* A frame that fills the work buffer exactly, with ':' in its data and    *)
(* '}' in its path, queued from Error with stale bytes in the buffer.      *)
C1_Witness ==
    \E i \in 1..Len(plog) : \E j \in i..Len(plog) :
        /\ plog[i].pre.state = "ERROR" /\ plog[i].pre.idx > 0
        /\ WellFormed(Popped(i, j))
        /\ Len(FramePath(Popped(i, j))) + Len(FrameData(Popped(i, j))) + 2
             = plog[i].pre.work_buf_size
        /\ \E k \in 1..Len(FramePath(Popped(i, j))) :
              FramePath(Popped(i, j))[k] = RBRACE
        /\ \E k \in 1..Len(FrameData(Popped(i, j))) :
              FrameData(Popped(i, j))[k] = COLON
        /\ QueuedAs(j, Popped(i, j))

(* The overflow guard was taken for the byte popped at step m.             *)
Overflowed(m) == plog[m].pre.idx >= plog[m].pre.work_buf_size

(* Step i pops the first '{' at or after step m.                           *)
FirstLbraceFrom(m, i) ==
    /\ m <= i
    /\ plog[i].ch = LBRACE
    /\ \A k \in m..(i - 1) : plog[k].ch # LBRACE

(* Steps i..j pop a well-formed frame that fits, completed with room in    *)
(* the frame queue.                                                        *)
GoodWindow(i, j) ==
    /\ plog[j].ch = RBRACE
    /\ WellFormed(Popped(i, j))
    /\ Fits(Popped(i, j), plog[i].pre.work_buf_size)
    /\ plog[j].room

C10_OverflowGuard ==
    \A m \in 1..Len(plog) :
        (plog[m].pre.idx = plog[m].pre.work_buf_size) =>
            /\ plog[m].post.state = "ERROR"
            /\ plog[m].post.idx = 0
            /\ plog[m].post.path_ptr = nullptr
            /\ plog[m].post.data_ptr = nullptr
            /\ plog[m].post.path_len = 0
            /\ plog[m].post.data_len = 0
            /\ plog[m].post.workBuffer = plog[m].pre.workBuffer
            /\ ~plog[m].pushed
            /\ plog[m].fqSame

(* A '{' popped on a full work buffer while reading data, and the bytes    *)
(* after it ignored in Error.                                              *)
C10_Witness ==
    \E m \in 1..(Len(plog) - 1) :
        /\ plog[m].pre.idx = plog[m].pre.work_buf_size
        /\ plog[m].pre.state = "READ_DATA"
        /\ plog[m].ch = LBRACE
        /\ plog[m + 1].ch = CH_p
        /\ plog[m + 1].post.state = "ERROR"

(* The byte each waiting state accepts.                                    *)
Expected(state) ==
    CASE state = "WAIT_P"       -> CH_p
      [] state = "WAIT_P_COLON" -> COLON
      [] state = "WAIT_D"       -> CH_d
      [] state = "WAIT_D_COLON" -> COLON

WaitingStates == {"WAIT_P", "WAIT_P_COLON", "WAIT_D", "WAIT_D_COLON"}

(* Step i pops the '{' that last moved the parser to WaitP before step j.  *)
LastStart(i, j) ==
    /\ i < j
    /\ plog[i].ch = LBRACE
    /\ plog[i].post.state = "WAIT_P"
    /\ \A k \in (i + 1)..j : plog[k].post.state # "WAIT_P"

(* C11: a frame is queued only by the '}' that ends 'p', ':', a path,      *)
(* ':', 'd', ':' and a data section popped since the '{' that last moved   *)
(* the parser to WaitP; a byte a waiting state does not accept moves the   *)
(* parser to Error; Error ignores every byte but '{', which moves the      *)
(* parser to WaitP with its indices reset.                                 *)
C11_MalformedDiscarded ==
    /\ \A j \in 1..Len(plog) :
          plog[j].pushed =>
            \E i \in 1..(j - 1) :
                /\ LastStart(i, j)
                /\ WellFormed(Popped(i, j))
                /\ QueuedAs(j, Popped(i, j))
    /\ \A m \in 1..Len(plog) :
          (plog[m].pre.state \in WaitingStates
           /\ plog[m].ch # Expected(plog[m].pre.state))
          => /\ plog[m].post.state = "ERROR"
             /\ ~plog[m].pushed /\ plog[m].fqSame
    /\ \A m \in 1..Len(plog) :
          plog[m].pre.state = "ERROR" =>
            /\ ~plog[m].pushed /\ plog[m].fqSame
            /\ plog[m].post.workBuffer = plog[m].pre.workBuffer
            /\ plog[m].post.idx = 0
            /\ IF plog[m].ch = LBRACE
               THEN /\ plog[m].post.state = "WAIT_P"
                    /\ plog[m].post.path_ptr = nullptr
                    /\ plog[m].post.data_ptr = nullptr
                    /\ plog[m].post.path_len = 0
                    /\ plog[m].post.data_len = 0
               ELSE plog[m].post.state = "ERROR"

(* A wrong byte after the path, bytes ignored in Error, then a frame       *)
(* queued from the next '{'.                                               *)
C11_Witness ==
    \E m \in 1..Len(plog) : \E n \in (m + 1)..Len(plog) :
        /\ plog[m].pre.state = "WAIT_P_COLON" /\ plog[m].ch # COLON
        /\ plog[m].post.state = "ERROR"
        /\ plog[m + 1].pre.state = "ERROR" /\ plog[m + 1].ch # LBRACE
        /\ plog[m + 1].post.state = "ERROR"
        /\ plog[n].pushed
        /\ \E i \in (m + 2)..(n - 1) : LastStart(i, n)

(* The '}' popped at step m completed a frame while the frame queue was    *)
(* full.                                                                   *)
DroppedAt(m) ==
    /\ plog[m].pre.state = "READ_DATA" /\ plog[m].ch = RBRACE
    /\ plog[m].pre.idx < plog[m].pre.work_buf_size
    /\ ~plog[m].room

(* C12: a frame completed while the frame queue is full is discarded: the  *)
(* frame queue stays as it was, the parser's indices are reset and the     *)
(* parser enters Error; the well-formed frame that begins with the next    *)
(* '{' and completes when the queue has room is queued.                    *)
C12_QueueFullDrop ==
    /\ \A m \in 1..Len(plog) :
          DroppedAt(m) =>
            /\ ~plog[m].pushed /\ plog[m].fqSame
            /\ plog[m].post.state = "ERROR"
            /\ plog[m].post.idx = 0
            /\ plog[m].post.path_ptr = nullptr
            /\ plog[m].post.data_ptr = nullptr
            /\ plog[m].post.path_len = 0
            /\ plog[m].post.data_len = 0
    /\ \A m \in 1..Len(plog) :
          DroppedAt(m) =>
            \A i \in (m + 1)..Len(plog) :
              FirstLbraceFrom(m + 1, i) =>
                \A j \in i..Len(plog) :
                  GoodWindow(i, j)
                  => /\ QueuedAs(j, Popped(i, j))
                     /\ \A k \in m..(j - 1) : ~plog[k].pushed

(* A frame queued, the next dropped on the full queue, and after the       *)
(* dispatcher made room a third frame queued.                              *)
C12_Witness ==
    \E m \in 1..Len(plog) : \E i \in (m + 1)..Len(plog) :
        \E j \in i..Len(plog) :
            /\ DroppedAt(m)
            /\ \E k \in 1..(m - 1) : plog[k].pushed
            /\ FirstLbraceFrom(m + 1, i) /\ GoodWindow(i, j)
            /\ QueuedAs(j, Popped(i, j))
            /\ Len(FrameData(Popped(i, j))) > 0

(* C13: a call of the parser's poll pops exactly the bytes that were in    *)
(* the RX queue when it was entered, in order, and leaves the RX queue     *)
(* empty, whatever the bytes and the parser's state.                       *)
C13_PollDrains ==
    [][ParserPoll =>
         /\ IsEmpty(rx')
         /\ rx'.prd = rx.prd
         /\ Len(plog') = Len(plog) + Live(rx)
         /\ \A k \in 1..Live(rx) : plog'[Len(plog) + k].ch = Contents(rx)[k]]_vars

(* The RX queue drained of a stream in which the work buffer overflowed    *)
(* and whose last byte queued a frame.                                     *)
C13_Witness ==
    /\ IsEmpty(rx) /\ Len(plog) = Len(rxd) /\ Len(rxd) > 2 * ScratchCap
    /\ \E m \in 1..Len(plog) : Overflowed(m)
    /\ plog[Len(plog)].pushed

----------------------------------------------------------------------------
(* Encoder calls.                                                          *)

(* The record an encoder call starts from.                                 *)
Encoding == [q |-> tx, TXEIE |-> TXEIE, cb |-> tx_notify, ok |-> TRUE,
             ev |-> << >>]

(* The bytes a call pushed successfully, in order.                         *)
PushedBytes(ev) ==
    LET F[i \in 0..Len(ev)] ==
          IF i = 0 THEN << >>
          ELSE IF ev[i].e = "push" /\ ev[i].ok THEN Append(F[i - 1], ev[i].c)
               ELSE F[i - 1]
    IN  F[Len(ev)]

Finish(S) ==
    /\ tx' = S.q
    /\ TXEIE' = S.TXEIE
    /\ sent' = [done |-> TRUE, ok |-> S.ok, ev |-> S.ev,
                bytes |-> PushedBytes(S.ev), txPre |-> tx]
    /\ UNCHANGED <<tx_notify, job, wire, nhist>>
    /\ UNCHANGED <<qvars, pvars>>

SendTrigger ==
    /\ job.kind = "trigger" /\ ~sent.done
    /\ Finish(send_trigger(Encoding, job.path))

SendInt ==
    /\ job.kind = "int" /\ ~sent.done
    /\ Finish(send_int(Encoding, job.path, job.values))

SendFloat ==
    /\ job.kind = "float" /\ ~sent.done
    /\ Finish(send_float(Encoding, job.path, job.values))

SendString ==
    /\ job.kind = "string" /\ ~sent.done
    /\ Finish(send_string(Encoding, job.path, job.strs))

NotSent == [done |-> FALSE, ok |-> FALSE, ev |-> << >>, bytes |-> << >>,
            txPre |-> ring_buffer(ZeroStorage(2), 2)]

----------------------------------------------------------------------------
(* Round trip: send_int, the TX bytes moved one by one into the RX queue,  *)
(* the parser's poll and the dispatcher's poll.                            *)

RtTxCap   == 30    \* buffer_size of the TX queue
RtScratch == 20    \* work_buffer_size
RtFqCap   == 2     \* buffer_size of the frame queue
RtRxCap   == RtTxCap

IntSamples == {INT32_MIN, INT32_MAX, 0, -1, 7, -10, 1000}

(* One or two sample values, and 3..MAX_CSV_ITEMS distinct values in       *)
(* ascending, descending and wider steps.                                  *)
RtValueLists ==
    {<<a>> : a \in IntSamples}
    \cup {<<a, b>> : a \in IntSamples, b \in IntSamples}
    \cup {[i \in 1..n |-> i * k] : n \in 3..MAX_CSV_ITEMS, k \in {1, -1, 12}}

RtPaths == {<< >>, <<CH_a, RBRACE>>, <<CH_a, COLON>>}

RtInit ==
    /\ job \in {[kind |-> "int", path |-> P, values |-> v, strs |-> << >>] :
                   P \in RtPaths, v \in RtValueLists}
    /\ sent = NotSent
    /\ tx = ring_buffer(ZeroStorage(RtTxCap), RtTxCap)
    /\ tx_notify = "tx_ready_handler"
    /\ TXEIE = FALSE
    /\ wire = << >>
    /\ nhist = << >>
    /\ rx = ring_buffer(ZeroStorage(RtRxCap), RtRxCap)
    /\ fq = ring_buffer(FrameStorage(RtFqCap), RtFqCap)
    /\ ps = cmnd_parser(ZeroStorage(RtScratch), RtScratch)
    /\ rxd = << >>
    /\ plog = << >>
    /\ calls = << >>
    /\ path_table = <<[path |-> job.path, expected_type |-> "INT", handler |-> 1]>>
    /\ xlast = NoPoll
    /\ QueueIdle

(* One byte leaves the TX queue and enters the RX queue.                   *)
Move ==
    /\ LET r == pop(tx, 0)
       IN  /\ r.ok
           /\ tx' = r.q
           /\ rx' = push(rx, r.out).q
           /\ rxd' = Append(rxd, r.out)
    /\ UNCHANGED <<fq, ps, plog, calls, path_table, xlast>>
    /\ UNCHANGED <<tx_notify, TXEIE, job, sent, wire, nhist>>
    /\ UNCHANGED qvars

RtNext == SendInt \/ Move \/ ParserPoll \/ ExecPoll
SpecRoundTrip == RtInit /\ [][RtNext]_vars

(* The payload send_int produces for the job, as the parser will hold it.  *)
RtFits ==
    Len(job.path) + (Len(sent.bytes) - Len(job.path) - 7) + 2 <= ps.work_buf_size

(* C3: when send_int succeeded on a path free of ':' and its bytes went    *)
(* through the RX queue, the parser and the dispatcher, the handler of     *)
(* the route was invoked exactly once, with type Int and the values sent.  *)
C3_IntRoundTrip ==
    /\ Len(calls) <= 1
    /\ calls # << >> =>
         calls = <<[entry |-> 1, handler |-> 1, type |-> "INT",
                    count |-> Len(job.values), values |-> job.values]>>
    /\ (/\ sent.done /\ sent.ok
        /\ \A k \in 1..Len(job.path) : job.path[k] # COLON
        /\ RtFits
        /\ IsEmpty(tx) /\ IsEmpty(rx) /\ IsEmpty(fq))
       => calls # << >>

(* MAX_CSV_ITEMS values delivered in order on a path holding '}'.          *)
C3_Witness ==
    /\ calls # << >>
    /\ calls[1].count = MAX_CSV_ITEMS
    /\ calls[1].values[MAX_CSV_ITEMS] = MAX_CSV_ITEMS
    /\ job.path = <<CH_a, RBRACE>>
    /\ sent.ok /\ IsEmpty(tx) /\ IsEmpty(rx) /\ IsEmpty(fq)

----------------------------------------------------------------------------
(* The encoder alone: one send_* call on a TX queue of either size, the    *)
(* port's initialisation, and the TXE interrupt draining the queue.        *)

SdTxCap == 16      \* buffer_size of the larger TX queue

FracSamples == {0, 4, 5, 50, 500, 1234, 9994, 9995, 9999}
IntPartSamples == {0, 1, 3, 9, 12}
FloatSamples ==
    {sg * (ip * FloatUnit + f) :
        sg \in {1, -1}, ip \in IntPartSamples, f \in FracSamples}

SdPaths == {<< >>, <<CH_a>>}

SdJobs ==
    {[kind |-> "trigger", path |-> P, values |-> << >>, strs |-> << >>] :
        P \in SdPaths}
    \cup {[kind |-> "int", path |-> P, values |-> v, strs |-> << >>] :
            P \in SdPaths,
            v \in {<< >>, <<0>>, <<-10>>, <<7, 1000>>, <<INT32_MIN>>}}
    \cup {[kind |-> "float", path |-> P, values |-> <<v>>, strs |-> << >>] :
            P \in SdPaths, v \in FloatSamples}
    \cup {[kind |-> "float", path |-> << >>, values |-> <<5000, -39999>>,
            strs |-> << >>]}
    \cup {[kind |-> "string", path |-> P, values |-> << >>, strs |-> v] :
            P \in SdPaths,
            v \in {<< << >> >>, << <<CH_a>> >>, << <<CH_a, COMMA>>, <<CH_1>> >>}}

(* Bytes an earlier call left in the TX queue.                              *)
SdHeld == {<< >>, <<RBRACE>>, <<CH_d, COLON, RBRACE>>}

RECURSIVE PushAll(_, _)
PushAll(q, s) ==
    IF s = << >> THEN q ELSE PushAll(push(q, Head(s)).q, Tail(s))

RECURSIVE PopN(_, _)
PopN(q, k) == IF k = 0 THEN q ELSE PopN(pop(q, 0).q, k - 1)

(* A TX queue of buffer_size n through which `off` bytes have passed and   *)
(* which holds the bytes `held`.                                           *)
Preloaded(n, off, held) ==
    PushAll(PopN(PushAll(ring_buffer(ZeroStorage(n), n), Str(off, RBRACE)),
                 off),
            held)

SenderInit ==
    /\ job \in SdJobs
    /\ sent = NotSent
    /\ \E n \in {SdTxCap \div 2, SdTxCap}, off \in {0, SdTxCap \div 2 - 1},
          held \in SdHeld :
         tx = Preloaded(n, off, held)
    /\ tx_notify = "null"
    /\ TXEIE = FALSE
    /\ wire = << >>
    /\ nhist = << >>
    /\ ParserIdle
    /\ QueueIdle

register_tx_notifier_if_empty(cb) ==
    tx_notify' = IF tx_notify = "null" THEN cb ELSE tx_notify

(* register_tx_notifier: tx_notify = cb                                    *)
register_tx_notifier(cb) == tx_notify' = cb

(* pathwire_port_init                                                      *)
pathwire_port_init ==
    /\ ~sent.done
    /\ tx_notify = "null"
    /\ register_tx_notifier("tx_ready_handler")
    /\ UNCHANGED <<tx, TXEIE, job, sent, wire, nhist>>
    /\ UNCHANGED <<qvars, pvars>>

(* USART2_IRQHandler entered for TXE (the interrupt is enabled by TXEIE).  *)
TxIrq ==
    /\ TXEIE
    /\ USART2_IRQHandler(FALSE, 0, TRUE)
    /\ UNCHANGED <<fq, ps, rxd, plog, calls, path_table, xlast>>
    /\ UNCHANGED <<tx_notify, job, sent, nhist>>
    /\ UNCHANGED qvars

SenderNext ==
    \/ pathwire_port_init
    \/ SendTrigger \/ SendInt \/ SendFloat \/ SendString
    \/ TxIrq
SpecSender == SenderInit /\ [][SenderNext]_vars

(* The decimal text of n >= 0.                                             *)
Dec(n) == IF n = 0 THEN <<CH_0>> ELSE Reverse(RevDigits(n))

(* The fractional part of fv rounds to 1000 thousandths.                   *)
Carries(fv) ==
    LET v == IF fv < 0 THEN -fv ELSE fv
    IN  ((v % FloatUnit) * 1000 + FloatUnit \div 2) \div FloatUnit >= 1000

CarriedText(fv) ==
    LET v == IF fv < 0 THEN -fv ELSE fv
    IN  (IF fv < 0 THEN <<MINUS>> ELSE << >>)
        \o Dec(v \div FloatUnit + 1) \o <<DOT, CH_0, CH_0, CH_0>>

(* C4: when the fractional part of the value rounds to 1000 thousandths,   *)
(* the bytes pushed for it are the incremented integer part followed by    *)
(* ".000" (1.9995 gives "2.000", 3.9999 gives "4.000").                    *)
C4_FloatCarry ==
    (/\ sent.done /\ sent.ok
     /\ job.kind = "float" /\ Len(job.values) = 1
     /\ Carries(job.values[1]))
    => sent.bytes = <<LBRACE, CH_p, COLON>> \o job.path \o <<COLON, CH_d, COLON>>
                    \o CarriedText(job.values[1]) \o <<RBRACE>>

----------------------------------------------------------------------------
(* The dispatcher behind the parser: frames of every payload type, for     *)
(* routes that match, miss or expect another type, arrive byte by byte.    *)

DsScratch == 24    \* work_buffer_size
DsFqCap   == 2     \* buffer_size of the frame queue
DsMaxLen  == 3     \* payloads of every byte combination up to this length

CH_b == CH_a + 1
CH_n == CH_a + 13
CH_z == CH_a + 25
CH_A == CH_a - 32

(* The items joined by ','.                                                *)
RECURSIVE Csv(_)
Csv(items) ==
    IF items = << >> THEN << >>
    ELSE IF Len(items) = 1 THEN items[1]
    ELSE items[1] \o <<COMMA>> \o Csv(Tail(items))

Digit(k) == <<CH_0 + k>>
Letter(k) == <<CH_a + k - 1>>

(* MAX_CSV_ITEMS + 1 items of each payload type.                           *)
IntItems    == [k \in 1..(MAX_CSV_ITEMS + 1) |-> Digit(k)]
FloatItems  == [k \in 1..(MAX_CSV_ITEMS + 1) |->
                  IF k = 1 THEN Digit(k) \o <<DOT>> \o Digit(5) ELSE Digit(k)]
StringItems == [k \in 1..(MAX_CSV_ITEMS + 1) |-> Letter(k)]

DsRoutes ==
    <<[path |-> <<CH_a>>,       expected_type |-> "INT",    handler |-> 1],
      [path |-> <<CH_a, CH_b>>, expected_type |-> "STRING", handler |-> 2],
      [path |-> <<CH_b>>,       expected_type |-> "FLOAT",  handler |-> 3],
      [path |-> <<CH_a>>,       expected_type |-> "STRING", handler |-> 4],
      [path |-> <<CH_n>>,       expected_type |-> "NONE",   handler |-> 5]>>

ClassBytes == {CH_1, DOT, COMMA, MINUS, CH_a}

(* Frames for the Int, Float and String routes: every payload of up to     *)
(* DsMaxLen bytes.                                                         *)
ShortFrames ==
    {Frame(P, X) : P \in {<<CH_a>>, <<CH_b>>, <<CH_a, CH_b>>},
                   X \in SeqsUpTo(ClassBytes, DsMaxLen)}

(* Frames with long lists, for each route, with paths that miss, and with  *)
(* a NUL byte inside the path or the data.                                 *)
ListFrames ==
    {Frame(<<CH_a>>, Csv(IntItems)),
     Frame(<<CH_a>>, Csv(SubSeq(IntItems, 1, MAX_CSV_ITEMS))),
     Frame(<<CH_b>>, Csv(FloatItems)),
     Frame(<<CH_a, CH_b>>, Csv(StringItems)),
     Frame(<<CH_a, CH_b>>, Csv(SubSeq(StringItems, 1, MAX_CSV_ITEMS))),
     Frame(<<CH_a, CH_b>>, <<CH_1>>),
     Frame(<<CH_a, CH_b>>, << >>),
     Frame(<<CH_b>>, <<CH_1>>),
     Frame(<<CH_b>>, <<MINUS, DOT, CH_1, COMMA, CH_1>>),
     Frame(<<CH_n>>, << >>),
     Frame(<<CH_n>>, <<CH_1>>),
     Frame(<<CH_z>>, <<CH_1>>),
     Frame(<<CH_A>>, <<CH_1>>),
     Frame(<< >>, <<CH_1>>),
     Frame(<<CH_a, NUL, CH_b>>, <<CH_1>>),
     Frame(<<CH_a>>, <<CH_1, NUL, CH_a>>)}

(* Two frames in a row: a miss, a mismatch or a dispatch, then a dispatch. *)
PairScripts ==
    {f \o g : f \in {Frame(<<CH_z>>, <<CH_1>>), Frame(<<CH_a>>, <<CH_a>>),
                     Frame(<<CH_a>>, <<CH_1>>)},
              g \in {Frame(<<CH_a>>, <<MINUS, CH_1>>), Frame(<<CH_n>>, << >>)}}

DsScripts == ShortFrames \cup ListFrames \cup PairScripts
DsPrefixes == UNION {Prefixes(f) : f \in DsScripts}
DsBytes == {f[k] : k \in 1..7, f \in {Frame(<< >>, << >>)}}
           \cup {NUL, DOT, COMMA, MINUS, CH_A}
           \cup {CH_0 + k : k \in 1..9} \cup {CH_a + k : k \in 0..25}

(* The RX queue holds the longest script.                                  *)
DsRxCap == DsScratch + 8

DispatchInit ==
    /\ rx = ring_buffer(ZeroStorage(DsRxCap), DsRxCap)
    /\ fq = ring_buffer(FrameStorage(DsFqCap), DsFqCap)
    /\ ps = cmnd_parser(ZeroStorage(DsScratch), DsScratch)
    /\ rxd = << >>
    /\ plog = << >>
    /\ calls = << >>
    /\ path_table = DsRoutes
    /\ xlast = NoPoll
    /\ QueueIdle
    /\ SenderIdle

(* The next byte of some frame arrives.                                    *)
DsRxIrq ==
    /\ \E b \in DsBytes :
         /\ Append(rxd, b) \in DsPrefixes
         /\ rxd' = Append(rxd, b)
         /\ USART2_IRQHandler(TRUE, b, FALSE)
    /\ UNCHANGED <<fq, ps, plog, calls, path_table, xlast>>
    /\ UNCHANGED <<tx_notify, job, sent, nhist>>
    /\ UNCHANGED qvars

DispatchNext == DsRxIrq \/ ParserPoll \/ ExecPoll
SpecDispatch == DispatchInit /\ [][DispatchNext]_vars

(* C14: a dispatcher poll removes at most one frame from the frame queue   *)
(* and makes at most one handler invocation; on an empty frame queue it    *)
(* pops nothing, invokes nothing and leaves the frame queue and the work   *)
(* buffer as they were.                                                    *)
C14_OneFramePerPoll ==
    xlast.polled =>
        /\ xlast.livePost >= xlast.livePre - 1
        /\ xlast.popped <=> xlast.livePre > 0
        /\ xlast.popped => xlast.livePost = xlast.livePre - 1
        /\ Len(xlast.made) <= 1
        /\ xlast.livePre = 0 => (xlast.same /\ xlast.made = << >>)

(* A poll on the empty frame queue after an earlier poll dispatched a      *)
(* frame to its handler.                                                   *)
C14_Witness ==
    /\ xlast.polled /\ ~xlast.popped /\ xlast.livePre = 0 /\ xlast.same
    /\ Len(calls) = 1
    /\ \E j \in 1..Len(plog) : plog[j].pushed

(* The route entries whose path equals the whole path slice of the frame   *)
(* the most recent dispatcher poll popped.                                 *)
SliceMatches == {i \in 1..Len(path_table) : path_table[i].path = xlast.path}

(* C15: a handler is invoked only for a route entry whose path equals the  *)
(* frame's whole path slice, all path_len bytes of it; a frame whose path  *)
(* slice equals no entry's path invokes no handler and is still removed    *)
(* from the frame queue.                                                   *)
C15_PathMatch ==
    (xlast.polled /\ xlast.popped) =>
        /\ xlast.made # << >> => xlast.made[1].entry \in SliceMatches
        /\ SliceMatches = {} =>
             /\ xlast.made = << >>
             /\ xlast.livePost = xlast.livePre - 1

(* C16: whenever the dispatcher invokes a handler, the data type passed to *)
(* it equals the expected_type of the route entry the handler belongs to.  *)
C16_TypePassed ==
    (xlast.polled /\ xlast.made # << >>) =>
        xlast.made[1].type = path_table[xlast.made[1].entry].expected_type

(* The route entry the most recent dispatcher poll matched the popped      *)
(* frame's path string against, or 0.                                      *)
Matched == FirstMatch(xlast.cpath, path_table, 1)

(* C17: for a popped frame with non-empty data whose path matches a route  *)
(* entry, the entry's handler is invoked exactly once iff the classified   *)
(* type of the payload equals the entry's expected type; on a mismatch no  *)
(* handler of any entry is invoked and the frame is consumed.              *)
C17_TypeMismatchDrop ==
    (xlast.polled /\ xlast.popped /\ Matched # 0
       /\ xlast.frame.data_len > 0) =>
        LET e == path_table[Matched].expected_type
            t == detect_type(xlast.cdata)
        IN  /\ xlast.livePost = xlast.livePre - 1
            /\ t = e =>
                 /\ Len(xlast.made) = 1
                 /\ xlast.made[1].entry = Matched
                 /\ xlast.made[1].handler = path_table[Matched].handler
            /\ t # e => xlast.made = << >>

(* The route "a" expects Int and received the data "aaa": the frame was    *)
(* consumed and no handler was invoked.                                    *)
C17_Witness ==
    /\ xlast.polled /\ xlast.popped
    /\ xlast.cpath = <<CH_a>>
    /\ path_table[Matched].expected_type = "INT"
    /\ xlast.frame.data_len = 3
    /\ xlast.cdata = <<CH_a, CH_a, CH_a>>
    /\ xlast.made = << >>
    /\ calls = << >>
    /\ IsEmpty(fq)

Classify(payload) ==
    IF \E k \in 1..Len(payload) :
         ~IsDigit(payload[k]) /\ payload[k] \notin {MINUS, COMMA, DOT}
    THEN "STRING"
    ELSE IF \E k \in 1..Len(payload) : payload[k] = DOT
    THEN "FLOAT"
    ELSE "INT"

RECURSIVE Items(_)
Items(payload) ==
    LET e == FieldEnd(payload, 1)
    IN  IF e > Len(payload) THEN <<payload>>
        ELSE <<SubSeq(payload, 1, e - 1)>>
             \o Items(SubSeq(payload, e + 1, Len(payload)))

(* Value v is what item `item`, taken alone, converts to under `type`.     *)
ItemValue(type, item, v) ==
    CASE type = "INT"    -> v \in AtoiOutcomes(atoi(item, 1))
      [] type = "FLOAT"  -> v = strtof(item, 1)
      [] type = "STRING" -> v = item
      [] OTHER           -> FALSE

(* C20: the count passed to a handler never exceeds MAX_CSV_ITEMS, and for *)
(* a payload of more than MAX_CSV_ITEMS items, of type Int, Float or       *)
(* String alike, the values passed are exactly the first MAX_CSV_ITEMS     *)
(* items: nothing of the items beyond them is delivered.                   *)
C20_ItemBound ==
    (xlast.polled /\ xlast.made # << >>) =>
        LET c == xlast.made[1]
            items == Items(xlast.cdata)
        IN  /\ c.count <= MAX_CSV_ITEMS
            /\ c.count = Len(c.values)
            /\ (c.type # "NONE" /\ Len(items) > MAX_CSV_ITEMS) =>
                 /\ c.count = MAX_CSV_ITEMS
                 /\ \A k \in 1..MAX_CSV_ITEMS :
                      ItemValue(c.type, items[k], c.values[k])

(* The same for the Int and Float payloads only.                           *)
C20_NumericItemBound ==
    (xlast.polled /\ xlast.made # << >>
       /\ xlast.made[1].type \in {"INT", "FLOAT"}) => C20_ItemBound

(* The signed integer a field's leading numeric prefix denotes: an         *)
(* optional '-' and the digits that follow it; 0 when no digit follows.    *)
PrefixInt(field) ==
    LET neg == field # << >> /\ field[1] = MINUS
        ds  == Digits(field, IF neg THEN 2 ELSE 1)
        V[i \in 0..Len(ds)] == IF i = 0 THEN 0 ELSE V[i - 1] * 10 + ds[i]
    IN  IF neg THEN -V[Len(ds)] ELSE V[Len(ds)]

(* C21: for a payload classified Int with n comma-separated fields, n =    *)
(* number of commas + 1 and n <= MAX_CSV_ITEMS, the handler receives count *)
(* n and, for each field in order, the integer of the field's leading      *)
(* numeric prefix, 0 for a field without one, a leading or trailing empty  *)
(* field included.                                                         *)
C21_IntParsing ==
    (xlast.polled /\ xlast.made # << >> /\ xlast.made[1].type = "INT") =>
        LET c == xlast.made[1]
            fields == Items(xlast.cdata)
        IN  Len(fields) <= MAX_CSV_ITEMS =>
              /\ c.count = Len(fields)
              /\ Len(c.values) = Len(fields)
              /\ \A k \in 1..Len(fields) : c.values[k] = PrefixInt(fields[k])

(* The same for the payloads whose last field is not empty.                *)
C21_IntParsingNoTrailingEmpty ==
    (xlast.polled /\ xlast.made # << >> /\ xlast.made[1].type = "INT"
       /\ xlast.cdata # << >>
       /\ xlast.cdata[Len(xlast.cdata)] # COMMA) => C21_IntParsing

(* The canonical decimal text of n >= 0, most significant digit first.     *)
RECURSIVE DecText(_)
DecText(n) ==
    IF n < 10 THEN <<CH_0 + n>>
    ELSE DecText(n \div 10) \o <<CH_0 + (n % 10)>>

(* The canonical decimal text of a signed 32-bit value.                    *)
IntText(v) ==
    IF v >= 0 THEN DecText(v)
    ELSE IF v = INT32_MIN
         THEN <<MINUS>> \o DecText(INT32_MAX \div 10)
                        \o <<CH_0 + (INT32_MAX % 10) + 1>>
         ELSE <<MINUS>> \o DecText(-v)

(* The frame a trigger, Int or String job stands for.                      *)
WholeFrame ==
    <<LBRACE, CH_p, COLON>> \o job.path \o <<COLON, CH_d, COLON>>
    \o Csv(IF job.kind = "int"
           THEN [k \in 1..Len(job.values) |-> IntText(job.values[k])]
           ELSE job.strs)
    \o <<RBRACE>>

(* Free cells of a queue: one cell of buffer_size always stays empty.      *)
Room(q) == q.buffer_size - 1 - Live(q)

(* C22: when the TX queue has room for the whole frame, send_trigger,      *)
(* send_int and send_string return true and append to the TX queue exactly *)
(* '{', 'p', ':', the path, ':', 'd', ':', the values joined by ','        *)
(* (strings verbatim, no trailing comma) and '}', and nothing else: the    *)
(* bytes sent on and the bytes queued are the bytes held before the call   *)
(* followed by the frame.                                                  *)
C22_FrameBytes ==
    (/\ sent.done
     /\ job.kind \in {"trigger", "int", "string"}
     /\ Len(WholeFrame) <= Room(sent.txPre)) =>
        /\ sent.ok
        /\ sent.bytes = WholeFrame
        /\ wire \o Contents(tx) = Contents(sent.txPre) \o WholeFrame

(* send_string of "a," and "1" behind three held bytes returned true; the  *)
(* queue holds the held bytes and the frame {p:a:d:a,,1}.                  *)
C22_Witness ==
    /\ sent.done /\ sent.ok
    /\ job.kind = "string" /\ job.path = <<CH_a>>
    /\ job.strs = << <<CH_a, COMMA>>, <<CH_1>> >>
    /\ Live(sent.txPre) = 3
    /\ wire = << >>
    /\ Contents(tx) = <<CH_d, COLON, RBRACE, LBRACE, CH_p, COLON, CH_a, COLON,
                        CH_d, COLON, CH_a, COMMA, COMMA, CH_1, RBRACE>>

(* The frame the job stands for: what the call pushes into an empty queue  *)
(* with room for all of it.                                                *)
FullFrame ==
    IF job.kind = "float"
    THEN PushedBytes(send_float([q |-> ring_buffer(ZeroStorage(4 * SdTxCap),
                                                   4 * SdTxCap),
                                 TXEIE |-> FALSE, cb |-> "null", ok |-> TRUE,
                                 ev |-> << >>],
                                job.path, job.values).ev)
    ELSE WholeFrame

(* The push events of the call that failed.                                *)
FailedPushes ==
    {i \in 1..Len(sent.ev) : sent.ev[i].e = "push" /\ ~sent.ev[i].ok}

(* C23: a send_* call returns false iff some byte push failed; the failed  *)
(* push is the last thing the call does, so the bytes it added are a       *)
(* proper prefix of the full frame; they stay in the queue, behind the     *)
(* bytes that were in it before the call, which are untouched.             *)
C23_AbortOnFull ==
    sent.done =>
        /\ sent.ok <=> FailedPushes = {}
        /\ wire \o Contents(tx) = Contents(sent.txPre) \o sent.bytes
        /\ FailedPushes # {} =>
             /\ FailedPushes = {Len(sent.ev)}
             /\ Len(sent.bytes) < Len(FullFrame)
             /\ sent.bytes = SubSeq(FullFrame, 1, Len(sent.bytes))

(* send_int failed on a queue of buffer_size 8 that held three bytes: the  *)
(* four bytes it had pushed were sent on after the held ones.              *)
C23_Witness ==
    /\ sent.done /\ ~sent.ok
    /\ job.kind = "int" /\ job.values = <<7, 1000>>
    /\ Live(sent.txPre) = 3
    /\ sent.bytes = <<LBRACE, CH_p, COLON, CH_a>>
    /\ IsEmpty(tx)
    /\ wire = <<CH_d, COLON, RBRACE, LBRACE, CH_p, COLON, CH_a>>

(* The notifications the call issued to the registered callback.           *)
Notifications == {i \in 1..Len(sent.ev) : sent.ev[i].e = "notify"}

(* C24: during a send_* call with a transmit notifier registered, the      *)
(* notification is issued exactly once per successfully enqueued byte,     *)
(* right after that byte is in the TX queue and before the next byte is    *)
(* pushed; a failed push issues none, so the number of notifications       *)
(* equals the number of bytes enqueued.  With no notifier registered       *)
(* nothing is invoked.                                                     *)
C24_NotifyPerByte ==
    sent.done =>
        IF tx_notify = "null" THEN Notifications = {}
        ELSE /\ \A i \in 1..Len(sent.ev) :
                  /\ (sent.ev[i].e = "push" /\ sent.ev[i].ok) =>
                       /\ i < Len(sent.ev)
                       /\ sent.ev[i + 1].e = "notify"
                       /\ sent.ev[i + 1].cb = tx_notify
                  /\ sent.ev[i].e = "notify" =>
                       /\ i > 1
                       /\ sent.ev[i - 1].e = "push"
                       /\ sent.ev[i - 1].ok
                  /\ (sent.ev[i].e = "push" /\ ~sent.ev[i].ok) =>
                       i = Len(sent.ev)
             /\ Cardinality(Notifications) = Len(sent.bytes)

(* A call with the notifier registered pushed four bytes, was notified     *)
(* four times and ended on a failed push.                                  *)
C24_Witness ==
    /\ sent.done /\ ~sent.ok
    /\ tx_notify = "tx_ready_handler"
    /\ Len(sent.bytes) = 4
    /\ Cardinality(Notifications) = 4
    /\ Len(sent.ev) = 9
    /\ ~sent.ev[9].ok
    /\ TXEIE

(* The frame of an Int job with every value in canonical decimal.          *)
CanonicalIntFrame ==
    <<LBRACE, CH_p, COLON>> \o job.path \o <<COLON, CH_d, COLON>>
    \o Csv([k \in 1..Len(job.values) |-> IntText(job.values[k])])
    \o <<RBRACE>>

(* C25: for every signed 32-bit value v, push_int emits the canonical      *)
(* decimal text of v: "0" for zero, no leading zeros, one '-' before a     *)
(* negative value and "-2147483648" for the minimum; the value it works on *)
(* after the negation stays within the 32-bit signed range.                *)
C25_IntFormat ==
    (sent.done /\ job.kind = "int") =>
        /\ sent.bytes = SubSeq(CanonicalIntFrame, 1, Len(sent.bytes))
        /\ sent.ok => sent.bytes = CanonicalIntFrame
        /\ \A k \in 1..Len(job.values) :
             job.values[k] # INT32_MIN =>
               /\ Magnitude(job.values[k]) >= 0
               /\ Magnitude(job.values[k]) <= INT32_MAX

(* send_int of the minimum and the maximum value succeeded.                *)
C25_Witness ==
    /\ sent.done /\ sent.ok
    /\ job.kind = "int" /\ job.path = << >>
    /\ job.values = <<INT32_MIN, INT32_MAX>>
    /\ sent.bytes = <<LBRACE, CH_p, COLON, COLON, CH_d, COLON>>
                    \o INT32_MIN_TEXT \o <<COMMA>>
                    \o <<50, 49, 52, 55, 52, 56, 51, 54, 52, 55>> \o <<RBRACE>>

----------------------------------------------------------------------------
(* The transmit notifier alone: callbacks are registered, one after the    *)
(* other, and notify_tx_ready is called in between.                        *)

NMaxOps == 5       \* register_tx_notifier / notify_tx_ready calls

Callbacks == {"null", "tx_ready_handler", "cb_a", "cb_b"}

NotifierInit ==
    /\ tx = ring_buffer(ZeroStorage(2), 2)
    /\ tx_notify = "null"
    /\ TXEIE = FALSE
    /\ job = [kind |-> "none", path |-> << >>, values |-> << >>, strs |-> << >>]
    /\ sent = NotSent
    /\ wire = << >>
    /\ nhist = << >>
    /\ ParserIdle
    /\ QueueIdle

(* register_tx_notifier(fn)                                                *)
Register ==
    /\ Len(nhist) < NMaxOps
    /\ \E fn \in Callbacks :
         /\ register_tx_notifier(fn)
         /\ nhist' = Append(nhist, [e |-> "register", cb |-> fn,
                                    invoked |-> << >>])
    /\ UNCHANGED <<tx, TXEIE, job, sent, wire>>
    /\ UNCHANGED <<qvars, pvars>>

(* notify_tx_ready()                                                       *)
Notify ==
    /\ Len(nhist) < NMaxOps
    /\ LET S == notify_tx_ready([q |-> tx, TXEIE |-> TXEIE, cb |-> tx_notify,
                                 ok |-> TRUE, ev |-> << >>])
       IN  /\ TXEIE' = S.TXEIE
           /\ nhist' = Append(nhist,
                  [e |-> "notify", cb |-> "null",
                   invoked |-> [i \in 1..Len(S.ev) |-> S.ev[i].cb]])
    /\ UNCHANGED <<tx, tx_notify, job, sent, wire>>
    /\ UNCHANGED <<qvars, pvars>>

NotifierNext == Register \/ Notify
SpecNotifier == NotifierInit /\ [][NotifierNext]_vars

(* The callback registered by the latest registration before event i, or   *)
(* "null" when there is none.                                              *)
LatestRegistered(i) ==
    LET regs == {j \in 1..(i - 1) : nhist[j].e = "register"}
    IN  IF regs = {} THEN "null"
        ELSE nhist[CHOOSE j \in regs : \A k \in regs : k <= j].cb

(* C26: after any sequence of registrations, notify_tx_ready invokes       *)
(* exactly the most recently registered callback, once, and invokes        *)
(* nothing when no callback was ever registered or the most recent         *)
(* registration was null; an overwritten callback is never invoked.        *)
C26_SingleSlot ==
    \A i \in 1..Len(nhist) :
        nhist[i].e = "notify" =>
            nhist[i].invoked = IF LatestRegistered(i) = "null" THEN << >>
                               ELSE <<LatestRegistered(i)>>

(* cb_a was registered and overwritten by cb_b, a notification invoked     *)
(* cb_b alone, null was registered, and a notification invoked nothing.    *)
C26_Witness ==
    /\ Len(nhist) = 5
    /\ nhist[1].e = "register" /\ nhist[1].cb = "cb_a"
    /\ nhist[2].e = "register" /\ nhist[2].cb = "cb_b"
    /\ nhist[3].e = "notify" /\ nhist[3].invoked = <<"cb_b">>
    /\ nhist[4].e = "register" /\ nhist[4].cb = "null"
    /\ nhist[5].e = "notify" /\ nhist[5].invoked = << >>

(* The route entries that carry the path string of the frame the most      *)
(* recent dispatcher poll popped.                                          *)
SamePath == {j \in 1..Len(path_table) : path_table[j].path = xlast.cpath}

(* C27: when several route entries have the same path, only the first one  *)
(* in table order is considered for a frame with that path; if its         *)
(* expected type mismatches the payload the frame is dropped, and no later *)
(* entry with the same path is invoked, even one whose expected type       *)
(* matches.                                                                *)
C27_FirstMatchWins ==
    (xlast.polled /\ xlast.popped /\ SamePath # {}) =>
        LET first == CHOOSE j \in SamePath : \A k \in SamePath : j <= k
        IN  /\ xlast.made # << >> => xlast.made[1].entry = first
            /\ (/\ xlast.frame.data_len > 0
                /\ detect_type(xlast.cdata) # path_table[first].expected_type)
               => /\ xlast.made = << >>
                  /\ xlast.livePost = xlast.livePre - 1

(* The frame {p:a:d:a-} met the first entry for "a", which expects Int,    *)
(* and was dropped although a later entry for "a" expects String.          *)
C27_Witness ==
    /\ xlast.polled /\ xlast.popped
    /\ xlast.cpath = <<CH_a>>
    /\ xlast.cdata = <<CH_a, MINUS>>
    /\ Cardinality(SamePath) = 2
    /\ \E j \in SamePath : path_table[j].expected_type = detect_type(xlast.cdata)
    /\ xlast.made = << >>
    /\ calls = << >>

(* One parser poll, from construction, with all of `bytes` waiting in the  *)
(* RX queue and the frame queue empty.                                     *)
SinglePoll(bytes) ==
    poll(cmnd_parser(ZeroStorage(ScratchCap), ScratchCap),
         PushAll(ring_buffer(ZeroStorage(Len(bytes) + 1), Len(bytes) + 1),
                 bytes),
         ring_buffer(FrameStorage(FqCap), FqCap),
         << >>)

(* C28: as long as the dispatcher has not taken a frame, so that the frame *)
(* queue is as full at each frame completion in both runs, the frames      *)
(* queued (with the path and data recorded when each was pushed) and the   *)
(* parser state reached by the polls made so far, wherever they split the  *)
(* bytes, are those of a single poll over the same bytes.  At all times    *)
(* each byte is processed from the parser state the byte before it left,   *)
(* whether or not a poll ended between the two.                            *)
C28_Resumable ==
    /\ ~xlast.polled =>
          LET ref == SinglePoll(SubSeq(rxd, 1, Len(plog)))
          IN  /\ ps = ref.p
              /\ fq = ref.fq
              /\ plog = ref.log
    /\ \A i \in 2..Len(plog) : plog[i].pre = plog[i - 1].post
    /\ plog # << >> => ps = plog[Len(plog)].post

(* A frame was queued, a later poll stopped inside the data of the next    *)
(* frame, and more bytes are waiting for the next poll.                    *)
C28_Witness ==
    /\ ~xlast.polled
    /\ ps.state = "READ_DATA"
    /\ ps.idx > 0
    /\ ~IsEmpty(rx)
    /\ \E j \in 1..Len(plog) : plog[j].pushed

----------------------------------------------------------------------------
(* The documented usage flow: bytes arrive in the RX queue at any time and *)
(* every iteration of the main loop polls the parser once and then the     *)
(* dispatcher once.                                                        *)

(* One iteration: parser.poll(); executer.poll();                          *)
MainLoop ==
    /\ LET r == poll(ps, rx, fq, plog)
           e == pop(r.fq, NoFrame)
       IN  /\ rx' = r.rx
           /\ plog' = r.log
           /\ IF ~e.ok
              THEN /\ fq' = r.fq
                   /\ ps' = r.p
                   /\ UNCHANGED calls
                   /\ xlast' = PollRecord(FALSE, NoFrame, r.p.workBuffer,
                                          r.fq, r.fq, r.p.workBuffer, << >>)
              ELSE /\ fq' = e.q
                   /\ LET d == dispatch(e.out, r.p.workBuffer, path_table)
                      IN  /\ ps' = [r.p EXCEPT !.workBuffer = d.buf]
                          /\ \E c \in d.calls :
                               /\ calls' = calls \o c
                               /\ xlast' = PollRecord(TRUE, e.out,
                                                      r.p.workBuffer, r.fq,
                                                      e.q, d.buf, c)
    /\ UNCHANGED <<rxd, path_table>>
    /\ UNCHANGED <<qvars, svars>>

LoopNext == DsRxIrq \/ MainLoop
SpecLoop == DispatchInit /\ [][LoopNext]_vars

(* The log entries of the bytes that completed a frame and queued it.      *)
PushedAt == {i \in 1..Len(plog) : plog[i].pushed}

(* The log entry that queued the frame the most recent dispatcher poll     *)
(* popped: frames leave the queue in the order they entered it.            *)
PushOfPopped ==
    CHOOSE i \in PushedAt :
        Cardinality({j \in PushedAt : j <= i})
            = Cardinality(PushedAt) - Live(fq)

(* C29: in the documented usage flow every Frame View the dispatcher pops  *)
(* still denotes the path and data bytes the parser recorded when it       *)
(* pushed that view.                                                       *)
C29_FrameViewIntegrity ==
    (xlast.polled /\ xlast.popped) =>
        /\ xlast.frame = plog[PushOfPopped].frame
        /\ xlast.cpath = plog[PushOfPopped].path
        /\ xlast.cdata = plog[PushOfPopped].data

(* Processing the byte of log entry e stored into the work buffer: in      *)
(* READ_PATH and READ_DATA every byte that passes the overflow guard is    *)
(* stored (or the terminator in its place) at idx, and idx advances        *)
(* before any reset.                                                       *)
Stores(e) ==
    \/ e.post.idx = e.pre.idx + 1
    \/ e.post.workBuffer # e.pre.workBuffer
    \/ e.pushed

(* C30: every write the parser makes into the scratch buffer, of a path    *)
(* byte, a data byte or a terminator, is at an index strictly below the    *)
(* capacity; the write index never exceeds the capacity, and it is 0       *)
(* whenever the parser is in WAIT_START or WAIT_P.                         *)
C30_ScratchBounds ==
    /\ ps.idx >= 0 /\ ps.idx <= ps.work_buf_size
    /\ ps.state \in {"WAIT_START", "WAIT_P"} => ps.idx = 0
    /\ \A i \in 1..Len(plog) :
         LET e == plog[i]
         IN  /\ e.post.idx >= 0 /\ e.post.idx <= e.post.work_buf_size
             /\ e.post.state \in {"WAIT_START", "WAIT_P"} => e.post.idx = 0
             /\ Stores(e) => e.pre.idx < e.pre.work_buf_size
             /\ DOMAIN e.post.workBuffer = 0..(e.pre.work_buf_size - 1)
             /\ \A k \in DOMAIN e.post.workBuffer :
                  e.post.workBuffer[k] # e.pre.workBuffer[k] => k = e.pre.idx

(* A byte was stored in the last cell of the scratch buffer, and the byte  *)
(* after it met the overflow guard.                                        *)
C30_Witness ==
    \E i \in 1..(Len(plog) - 1) :
        /\ plog[i].pre.idx = ScratchCap - 1
        /\ plog[i].post.idx = ScratchCap
        /\ plog[i].post.workBuffer[ScratchCap - 1] = plog[i].ch
        /\ plog[i].ch # NUL
        /\ plog[i + 1].post.state = "ERROR"
        /\ plog[i + 1].post.idx = 0

----------------------------------------------------------------------------
(* Transmission: one send_* call taken byte by byte, each push and each    *)
(* notification a step of its own, with the USART2 interrupt handler       *)
(* running between any two steps.                                          *)

TxCap == 8         \* buffer_size of the TX queue

TxJobs ==
    {j \in SdJobs : j.kind = "trigger"}
    \cup {j \in SdJobs : j.kind = "int" /\ j.values = <<-10>>
                          /\ j.path = <<CH_a>>}
    \cup {j \in SdJobs : j.kind = "string" /\ Len(j.strs) = 2
                          /\ j.path = << >>}

TxInit ==
    /\ job \in TxJobs
    /\ sent = [done |-> FALSE, ok |-> FALSE, ev |-> << >>, bytes |-> << >>,
               txPre |-> ring_buffer(ZeroStorage(2), 2), pending |-> FALSE,
               wirePre |-> << >>]
    /\ \E off \in {0, TxCap - 1}, held \in SdHeld :
         tx = Preloaded(TxCap, off, held)
    /\ tx_notify = "null"
    /\ TXEIE = FALSE
    /\ wire = << >>
    /\ nhist = << >>
    /\ ParserIdle
    /\ QueueIdle

(* pathwire_port_init, before the call.                                    *)
TxPortInit ==
    /\ sent.ev = << >>
    /\ tx_notify = "null"
    /\ register_tx_notifier("tx_ready_handler")
    /\ UNCHANGED <<tx, TXEIE, job, sent, wire, nhist>>
    /\ UNCHANGED <<qvars, pvars>>

(* push_char up to its call of notify_tx_ready: the push of the next byte  *)
(* of the frame; a failed push ends the send_* call with false.            *)
EncPush ==
    /\ ~sent.done /\ ~sent.pending
    /\ Len(sent.bytes) < Len(FullFrame)
    /\ LET c == FullFrame[Len(sent.bytes) + 1]
           r == push(tx, c)
       IN  /\ tx' = r.q
           /\ sent' = [sent EXCEPT
                 !.ev = Append(@, [e |-> "push", cb |-> "null", c |-> c,
                                   ok |-> r.ok]),
                 !.bytes = IF r.ok THEN Append(@, c) ELSE @,
                 !.pending = r.ok,
                 !.done = ~r.ok,
                 !.txPre = IF sent.ev = << >> THEN tx ELSE @,
                 !.wirePre = IF sent.ev = << >> THEN wire ELSE @]
    /\ UNCHANGED <<tx_notify, TXEIE, job, wire, nhist>>
    /\ UNCHANGED <<qvars, pvars>>

(* The rest of push_char: notify_tx_ready(); after the last byte of the    *)
(* frame the send_* call returns true.                                     *)
EncNotify ==
    /\ sent.pending
    /\ LET S == notify_tx_ready([q |-> tx, TXEIE |-> TXEIE, cb |-> tx_notify,
                                 ok |-> TRUE, ev |-> sent.ev])
           last == Len(sent.bytes) = Len(FullFrame)
       IN  /\ TXEIE' = S.TXEIE
           /\ sent' = [sent EXCEPT !.ev = S.ev, !.pending = FALSE,
                                   !.done = last, !.ok = last]
    /\ UNCHANGED <<tx, tx_notify, job, wire, nhist>>
    /\ UNCHANGED <<qvars, pvars>>

(* USART2_IRQHandler entered for a received byte; TXE may be set as well.  *)
RxneIrq ==
    /\ \E txe \in BOOLEAN : USART2_IRQHandler(TRUE, NUL, txe)
    /\ UNCHANGED <<fq, ps, rxd, plog, calls, path_table, xlast>>
    /\ UNCHANGED <<tx_notify, job, sent, nhist>>
    /\ UNCHANGED qvars

TxNext == TxPortInit \/ EncPush \/ EncNotify \/ TxIrq \/ RxneIrq
SpecTx == TxInit /\ [][TxNext]_vars

(* The call runs on to its return, and the interrupt is taken while it is  *)
(* enabled and the data register is empty.                                 *)
SpecTxLive ==
    SpecTx /\ WF_vars(EncPush) /\ WF_vars(EncNotify) /\ WF_vars(TxIrq)

(* The encoder has enqueued at least one byte with the port's kick         *)
(* function registered as the transmit notifier.                           *)
KickedBytes == tx_notify = "tx_ready_handler" /\ sent.bytes # << >>

(* The bytes written to the data register before the call, the bytes the   *)
(* TX queue held when the call began, and the bytes the call has enqueued. *)
TxStream == sent.wirePre \o Contents(sent.txPre) \o sent.bytes

(* Everything enqueued so far has been written to the data register.       *)
AllWritten ==
    /\ IsEmpty(tx)
    /\ wire = TxStream

(* C31: with the port's kick function registered as the transmit notifier, *)
(* every byte the encoder enqueues in the TX queue is eventually popped by *)
(* the interrupt handler and written to the data register, in order; and   *)
(* once the notification for the last enqueued byte has completed, the     *)
(* transmit interrupt is never disabled while the TX queue is non-empty.   *)
C31_TxLiveness ==
    /\ [](KickedBytes =>
            /\ wire \o Contents(tx) = TxStream
            /\ (~sent.pending /\ ~IsEmpty(tx)) => TXEIE)
    /\ (KickedBytes ~> AllWritten)

(* The call returned true on a queue that held three bytes; the handler    *)
(* ran during the call and after it, every byte is in the data register    *)
(* and the transmit interrupt is disabled again.                           *)
C31_Witness ==
    /\ KickedBytes
    /\ sent.done /\ sent.ok
    /\ Live(sent.txPre) = 3
    /\ Len(FullFrame) > Room(sent.txPre)
    /\ AllWritten
    /\ wire = <<CH_d, COLON, RBRACE>> \o FullFrame
    /\ ~TXEIE
    /\ \E i \in 1..(Len(sent.ev) - 1) :
         sent.ev[i].e = "notify" /\ sent.ev[i + 1].e = "push"

====
